---- MODULE Spec2Model ----
(***************************************************************************)
(* The inference dispatch core of go-network-proxy:                        *)
(*   inference/queue/queue.go    PriorityQueue (heap + mutex + cond)       *)
(*   inference/router/router.go  Router (one workerLoop per worker, Close) *)
(*   inference/worker (client)   Client.ProcessRequest (backend stream)    *)
(*   proxy/handlers (inference)  InferenceHandler.ServeHTTP (SSE endpoint) *)
(*                                                                         *)
(* Every access to pq.items and pq.closed is made under pq.mu, so each     *)
(* critical section (Lock .. Unlock, or Lock .. cond.Wait, or the return   *)
(* from cond.Wait .. Unlock) is one atomic action.  The heap is the array  *)
(* container/heap maintains, with the sifting done through                 *)
(* RequestHeap.Less.  Request.index is written by Swap/Push/Pop and never  *)
(* read, so it is left out of the record.                                  *)
(***************************************************************************)
EXTENDS Integers, Sequences, FiniteSets, TLC

\* ---------------------------------------------------------------- bounds
\* Number of submissions (Request records) made while the workers run
\* (Spec, FairSpec).
MaxReqs == 2
\* Number of records pushed before the first Pop in OrderSpec.
MaxSeq == 3
\* Number of worker clients, hence of workerLoop goroutines.
NumWorkers == 2

\* Number of frames a backend stream delivers before it ends or fails.
MaxFrames == 2
\* Capacity of a record's ResponseCh in the model (the endpoint makes it 100).
ChanCap == 1
\* Capacity of a record's ErrorCh.
ErrCap == 1

Workers == 1..NumWorkers
\* The ServeHTTP calls followed step by step.  The records of two calls
\* share nothing but the queue (each call makes its own ResponseCh and
\* ErrorCh), and the queue under concurrent submissions is what Spec covers:
\* StreamSpec follows one call through the endpoint, the queue and a worker.
Conns == {1}
Ids == 1..(IF MaxSeq > MaxReqs THEN MaxSeq ELSE MaxReqs)
\* A TokenResponse: its position in the backend stream and its Finished flag.
Frames == [n : 1..MaxFrames, Finished : BOOLEAN]
NoFrame == [n |-> 0, Finished |-> FALSE]
\* Priority values (Higher number = Higher priority): the default the endpoint
\* gives a submission, and an urgent one.
LowPriority == 1
HighPriority == 10
Priorities == {LowPriority, HighPriority}
\* SubmitTime values: two instants, so that records can tie or differ on it.
Times == {1, 2}
Requests == [id : Ids, Priority : Priorities, SubmitTime : Times]
\* The nil *Request.
Nil == [id |-> 0, Priority |-> 0, SubmitTime |-> 0]
\* No body: the call's body is not followed field by field.
NoBody == [followed |-> FALSE]

VARIABLES
    items,          \* pq.items: the heap array (RequestHeap), 1-based here
    closed,         \* pq.closed
    inflight,       \* pq.inflight: the WaitGroup counter
    waiters,        \* goroutines parked in pq.cond.Wait, not yet signalled
    queueDepth,     \* metrics.InferenceQueueDepth
    inFlightGauge,  \* metrics.InferenceInFlight
    pc,             \* position of each workerLoop goroutine
    cur,            \* req of each workerLoop (Nil when none)
    rpc,            \* position of the goroutine running Router.Close
    workersClosed,  \* the worker connections have been closed
    nextId,         \* the next submission
    pushed,         \* ids of the records for which Push returned true
    rejected,       \* ids of the records for which Push returned false
    popCount,       \* per id: how many times Pop returned that record
    lastPop,        \* the record Pop returned last (Nil before the first)
    closeItems,     \* ids of the records in the heap when Close ran
    atClose,        \* the workers that were inside Pop when Close ran
    closeBusy,      \* ids of the records held by workers when Close ran
    soleWake,       \* per worker: id of the record pushed while it alone was
                    \* inside Pop, parked, 0 when none
    doneCount,      \* per id: how many times Done was called for that record
    hpc,            \* position of each ServeHTTP call
    hbody,          \* per call: the body it was given
    hflush,         \* per call: its ResponseWriter is an http.Flusher
    hid,            \* per call: id of the record it pushed (0 when none)
    hgone,          \* per call: r.Context() is cancelled (the client left)
    hreq,           \* per call: the body it was sent and the reqBody decoded
                    \* from it (NoBody when the model does not follow them)
    hres,           \* per call: the pre-stream HTTP error it answered, or the
                    \* terminal status of its streaming loop
    hlabel,         \* per call: its priorityLabel ("none" before it is set)
    hallow,         \* per call: what limiter.Allow answered ("none" when the
                    \* call was handed to the endpoint without the chain)
    out,            \* per call: what it wrote on the response body
    respCh,         \* per record: the frames buffered in req.ResponseCh
    respClosed,     \* per record: req.ResponseCh is closed
    errCh,          \* per record: number of errors buffered in req.ErrorCh
    nrecv,          \* per worker: frames its current stream has delivered
    wframe,         \* per worker: the frame it is sending (NoFrame when none)
    fwd,            \* per record: frames the worker has put on ResponseCh
    failed,         \* per record: the worker has put an error on ErrorCh
    recvd,          \* per record: the frames stream.Recv has returned, in order
    requestsTotal,  \* metrics.InferenceRequestsTotal, per priority label and
                    \* status (summed over the model label)
    workerRequestsTotal,  \* metrics.InferenceWorkerRequestsTotal, per status
                    \* (summed over the worker_id label)
    queueWait       \* metrics.InferenceQueueWaitDuration: the number of
                    \* observations per priority label

vars == <<items, closed, inflight, waiters, queueDepth, inFlightGauge, pc, cur,
          rpc, workersClosed, nextId, pushed, rejected, popCount, lastPop,
          closeItems, atClose, closeBusy, soleWake, doneCount,
          hpc, hbody, hflush, hid, hgone, hreq, hres, hlabel, hallow, out,
          respCh, respClosed, errCh, nrecv, wframe, fwd, failed, recvd,
          requestsTotal, workerRequestsTotal, queueWait>>

queueVars == <<items, closed, inflight, waiters, queueDepth, inFlightGauge>>
histVars == <<pushed, rejected, popCount, lastPop, closeItems,
              atClose, closeBusy, soleWake>>
\* The endpoint calls, the records' channels and the backend streams.
endpointVars == <<hpc, hbody, hflush, hid, hgone, hreq, hres, hlabel, hallow,
                  out>>
chanVars == <<respCh, respClosed, errCh, nrecv, wframe, fwd, failed, recvd>>
\* The inference counters and histograms of the metrics package.
metricVars == <<requestsTotal, workerRequestsTotal, queueWait>>
streamVars == <<endpointVars, chanVars, metricVars>>

\* ---------------------------------------------------------------- metrics
\* A label that calls every priority below 8 low.
PriorityLabelNoMedium(priority) ==
    IF priority >= 8 THEN "high" ELSE "low"

\* metrics.PriorityLabel(priority).
PriorityLabel(priority) ==
    IF priority >= 8 THEN "high"
    ELSE IF priority >= 4 THEN "medium"
    ELSE "low"

Labels == {"high", "medium", "low"}
\* The values of the status label.
Statuses == {"success", "error", "cancelled"}

\* ------------------------------------------------------------ RequestHeap
\* Less with the FIFO fallback dropped.
LessPriorityOnly(a, b) == a.Priority > b.Priority

\* RequestHeap.Less on two records.
Less(a, b) ==
    IF a.Priority # b.Priority
    THEN a.Priority > b.Priority
    ELSE a.SubmitTime < b.SubmitTime

\* RequestHeap.Swap; i, j are 0-based as in the source.
Swap(h, i, j) == [h EXCEPT ![i + 1] = h[j + 1], ![j + 1] = h[i + 1]]

\* container/heap.up(h, j), 0-based.
RECURSIVE Up(_, _)
Up(h, j) ==
    IF j = 0 THEN h
    ELSE LET i == (j - 1) \div 2 IN
         IF ~Less(h[j + 1], h[i + 1]) THEN h
         ELSE Up(Swap(h, i, j), i)

\* container/heap.down(h, i, n), 0-based.
RECURSIVE Down(_, _, _)
Down(h, i, n) ==
    LET j1 == 2 * i + 1 IN
    IF j1 >= n THEN h
    ELSE LET j2 == j1 + 1
             j  == IF j2 < n /\ Less(h[j2 + 1], h[j1 + 1]) THEN j2 ELSE j1
         IN  IF ~Less(h[j + 1], h[i + 1]) THEN h
             ELSE Down(Swap(h, i, j), j, n)

\* heap.Push(&pq.items, req): RequestHeap.Push appends, then up(n-1).
HeapPush(h, x) == Up(Append(h, x), Len(h))

\* RequestHeap.Pop called directly: the last element, without the sifting.
HeapPopLast(h) ==
    [item |-> h[Len(h)], heap |-> SubSeq(h, 1, Len(h) - 1)]

\* A Pop that returns the head and leaves it in the heap.
HeapPeek(h) == [item |-> h[1], heap |-> h]

\* heap.Pop(&pq.items): Swap(0, n-1), down(0, n-1), RequestHeap.Pop takes the last.
HeapPop(h) ==
    LET n == Len(h) - 1
        d == Down(Swap(h, 0, n), 0, n)
    IN  [item |-> d[n + 1], heap |-> SubSeq(d, 1, n)]

Range(s) == {s[k] : k \in 1..Len(s)}

\* The workers that are inside Pop (parked, or signalled and not yet running).
InPop == {c \in Workers : pc[c] \in {"waiting", "woken"}}

\* ------------------------------------------------------------------ Init
\* NewPriorityQueue, NewRouter and Router.Start have run: the heap is empty
\* and open, the workerLoops are where pc0 puts them.
InitWith(pc0) ==
    /\ items = <<>>
    /\ closed = FALSE
    /\ inflight = 0
    /\ waiters = {}
    /\ queueDepth = 0
    /\ inFlightGauge = 0
    /\ pc = pc0
    /\ cur = [c \in Workers |-> Nil]
    /\ rpc = "run"
    /\ workersClosed = FALSE
    /\ nextId = 1
    /\ pushed = {}
    /\ rejected = {}
    /\ popCount = [i \in Ids |-> 0]
    /\ lastPop = Nil
    /\ closeItems = {}
    /\ atClose = {}
    /\ closeBusy = {}
    /\ soleWake = [c \in Workers |-> 0]
    /\ doneCount = [i \in Ids |-> 0]
    /\ hpc = [h \in Conns |-> "serve"]
    /\ hbody = [h \in Conns |-> "none"]
    /\ hflush = [h \in Conns |-> FALSE]
    /\ hid = [h \in Conns |-> 0]
    /\ hgone = [h \in Conns |-> FALSE]
    /\ hreq = [h \in Conns |-> NoBody]
    /\ hres = [h \in Conns |-> "none"]
    /\ hlabel = [h \in Conns |-> "none"]
    /\ hallow = [h \in Conns |-> "none"]
    /\ out = [h \in Conns |-> <<>>]
    /\ respCh = [i \in Ids |-> <<>>]
    /\ respClosed = [i \in Ids |-> FALSE]
    /\ errCh = [i \in Ids |-> 0]
    /\ nrecv = [c \in Workers |-> 0]
    /\ wframe = [c \in Workers |-> NoFrame]
    /\ fwd = [i \in Ids |-> 0]
    /\ failed = [i \in Ids |-> FALSE]
    /\ recvd = [i \in Ids |-> <<>>]
    /\ requestsTotal = [l \in Labels, st \in Statuses |-> 0]
    /\ workerRequestsTotal = [st \in Statuses |-> 0]
    /\ queueWait = [l \in Labels |-> 0]

\* Every workerLoop is about to call Pop.
Init == InitWith([c \in Workers |-> "pop"])

\* ------------------------------------------------------------- sync.Cond
\* Signal turned into a Broadcast.
CondSignalAll ==
    /\ waiters' = {}
    /\ pc' = [c \in Workers |-> IF c \in waiters THEN "woken" ELSE pc[c]]

\* Signal that wakes nobody.
CondSignalNone == UNCHANGED <<waiters, pc>>

\* pq.cond.Signal(): wakes one goroutine waiting on the condition, if any.
CondSignal ==
    IF waiters = {}
    THEN UNCHANGED <<waiters, pc>>
    ELSE \E c \in waiters :
            /\ waiters' = waiters \ {c}
            /\ pc' = [pc EXCEPT ![c] = "woken"]

\* Broadcast that wakes nobody.
CondBroadcastNone == UNCHANGED <<waiters, pc>>

\* pq.cond.Broadcast(): wakes every goroutine waiting on the condition.
CondBroadcast ==
    /\ waiters' = {}
    /\ pc' = [c \in Workers |-> IF c \in waiters THEN "woken" ELSE pc[c]]

\* ------------------------------------------------------ PriorityQueue.Push
\* What the caller of Push learns, and the history of the run.
PushHist(req, ok) ==
    /\ pushed' = IF ok THEN pushed \cup {req.id} ELSE pushed
    /\ rejected' = IF ok THEN rejected ELSE rejected \cup {req.id}
    /\ soleWake' =
          IF ~ok THEN soleWake
          ELSE [c \in Workers |->
                  IF InPop = {c} /\ pc[c] = "waiting"
                  THEN req.id
                  ELSE soleWake[c]]
    /\ UNCHANGED <<popCount, lastPop, closeItems, atClose, closeBusy>>

\* Push that forgets inflight.Add(1).
PushNoAdd(p, t) ==
    /\ nextId \in Ids
    /\ LET req == [id |-> nextId, Priority |-> p, SubmitTime |-> t] IN
          IF closed
          THEN /\ UNCHANGED <<queueVars, pc>>
               /\ PushHist(req, FALSE)
          ELSE /\ items' = HeapPush(items, req)
               /\ queueDepth' = Len(items')
               /\ CondSignal
               /\ UNCHANGED <<closed, inflight, inFlightGauge>>
               /\ PushHist(req, TRUE)
    /\ nextId' = nextId + 1
    /\ UNCHANGED <<cur, rpc, workersClosed>>

\* Push without the closed check.
PushIgnoringClosed(p, t) ==
    /\ nextId \in Ids
    /\ LET req == [id |-> nextId, Priority |-> p, SubmitTime |-> t] IN
          /\ inflight' = inflight + 1
          /\ items' = HeapPush(items, req)
          /\ queueDepth' = Len(items')
          /\ CondSignal
          /\ UNCHANGED <<closed, inFlightGauge>>
          /\ PushHist(req, TRUE)
    /\ nextId' = nextId + 1
    /\ UNCHANGED <<cur, rpc, workersClosed>>

\* Push that sets the depth gauge before heap.Push instead of after it.
PushStaleDepth(p, t) ==
    /\ nextId \in Ids
    /\ LET req == [id |-> nextId, Priority |-> p, SubmitTime |-> t] IN
          IF closed
          THEN /\ UNCHANGED <<queueVars, pc>>
               /\ PushHist(req, FALSE)
          ELSE /\ inflight' = inflight + 1
               /\ items' = HeapPush(items, req)
               /\ queueDepth' = Len(items)
               /\ CondSignal
               /\ UNCHANGED <<closed, inFlightGauge>>
               /\ PushHist(req, TRUE)
    /\ nextId' = nextId + 1
    /\ UNCHANGED <<cur, rpc, workersClosed>>

\* pq.Push(req) for a freshly constructed record of priority p and
\* SubmitTime t; the whole body runs under pq.mu.
Push(p, t) ==
    /\ nextId \in Ids
    /\ LET req == [id |-> nextId, Priority |-> p, SubmitTime |-> t] IN
          IF closed
          THEN /\ UNCHANGED <<queueVars, pc>>
               /\ PushHist(req, FALSE)
          ELSE /\ inflight' = inflight + 1
               /\ items' = HeapPush(items, req)
               /\ queueDepth' = Len(items')
               /\ CondSignal
               /\ UNCHANGED <<closed, inFlightGauge>>
               /\ PushHist(req, TRUE)
    /\ nextId' = nextId + 1
    /\ UNCHANGED <<cur, rpc, workersClosed>>

\* ------------------------------------------------------- PriorityQueue.Pop
\* Pop returned to workerLoop c (with a record or with nil).
PopReturnHist(c, item) ==
    /\ popCount' = IF item = Nil THEN popCount
                   ELSE [popCount EXCEPT ![item.id] = @ + 1]
    /\ lastPop' = IF item = Nil THEN lastPop ELSE item
    /\ soleWake' = [soleWake EXCEPT ![c] = 0]
    /\ UNCHANGED <<pushed, rejected, closeItems, atClose, closeBusy>>

\* Pop went (back) to cond.Wait.
PopWaitHist(c) ==
    /\ soleWake' = [soleWake EXCEPT ![c] = 0]
    /\ UNCHANGED <<pushed, rejected, popCount, lastPop, closeItems, atClose,
                   closeBusy>>

\* Pop that gives up as soon as the queue is closed.
PopBodyNilWhenClosed(c) ==
    IF Len(items) = 0 /\ ~closed
    THEN /\ pc' = [pc EXCEPT ![c] = "waiting"]
         /\ waiters' = waiters \cup {c}
         /\ UNCHANGED <<items, closed, inflight, queueDepth, inFlightGauge, cur>>
         /\ PopWaitHist(c)
    ELSE IF Len(items) = 0 \/ closed
    THEN /\ pc' = [pc EXCEPT ![c] = "stopped"]
         /\ UNCHANGED <<queueVars, cur>>
         /\ PopReturnHist(c, Nil)
    ELSE LET res == HeapPop(items) IN
         /\ items' = res.heap
         /\ queueDepth' = Len(res.heap)
         /\ inFlightGauge' = inFlightGauge + 1
         /\ cur' = [cur EXCEPT ![c] = res.item]
         /\ pc' = [pc EXCEPT ![c] = "process"]
         /\ UNCHANGED <<closed, inflight, waiters>>
         /\ PopReturnHist(c, res.item)

\* The body of Pop from the loop test on, run with pq.mu held: the loop
\* test, then either cond.Wait (which parks the goroutine and releases
\* pq.mu), or the return of nil, or heap.Pop and the return of the record
\* to workerLoop, which stops on nil.
PopBody(c) ==
    IF Len(items) = 0 /\ ~closed
    THEN /\ pc' = [pc EXCEPT ![c] = "waiting"]
         /\ waiters' = waiters \cup {c}
         /\ UNCHANGED <<items, closed, inflight, queueDepth, inFlightGauge, cur>>
         /\ PopWaitHist(c)
    ELSE IF Len(items) = 0
    THEN /\ pc' = [pc EXCEPT ![c] = "stopped"]
         /\ UNCHANGED <<queueVars, cur>>
         /\ PopReturnHist(c, Nil)
    ELSE LET res == HeapPop(items) IN
         /\ items' = res.heap
         /\ queueDepth' = Len(res.heap)
         /\ inFlightGauge' = inFlightGauge + 1
         /\ cur' = [cur EXCEPT ![c] = res.item]
         /\ pc' = [pc EXCEPT ![c] = "process"]
         /\ UNCHANGED <<closed, inflight, waiters>>
         /\ PopReturnHist(c, res.item)

\* workerLoop c calls r.queue.Pop(): Lock, then the body.
Pop(c) ==
    /\ pc[c] = "pop"
    /\ PopBody(c)
    /\ UNCHANGED <<rpc, workersClosed, nextId, doneCount, streamVars>>

\* workerLoop c, signalled, returns from cond.Wait: it holds pq.mu again
\* and runs the loop test again.
PopWake(c) ==
    /\ pc[c] = "woken"
    /\ PopBody(c)
    /\ UNCHANGED <<rpc, workersClosed, nextId, doneCount, streamVars>>

\* The endpoint submits: a record of priority p, stamped t, is pushed.
Submit(p, t) ==
    /\ nextId <= MaxReqs
    /\ Push(p, t)
    /\ UNCHANGED <<doneCount, streamVars>>

\* A submission with the default priority.
SubmitDefault ==
    /\ nextId <= MaxReqs
    /\ Push(LowPriority, 1)
    /\ UNCHANGED <<doneCount, streamVars>>

\* A sequential caller, as in the package's ordering tests: it pushes while
\* nothing has been popped and no other operation is under way ...
SubmitSeq(p, t) ==
    /\ nextId <= MaxSeq
    /\ lastPop = Nil
    /\ \A c \in Workers : pc[c] = "pop"
    /\ Push(p, t)
    /\ UNCHANGED <<doneCount, streamVars>>

\* ... and then pops, one call at a time, as many records as were pushed.
PopSeq(c) ==
    /\ items # <<>>
    /\ \A d \in Workers \ {c} : pc[d] = "pop"
    /\ Pop(c)

\* As many records as there are consumers are pushed, at any moment, each
\* with any key (TestPriorityQueue_MultipleBlockingConsumers).
SubmitWake(p, t) ==
    /\ nextId <= NumWorkers
    /\ Push(p, t)
    /\ UNCHANGED <<doneCount, streamVars>>

\* pq.Len(): len(pq.items), read under pq.mu, that is between two of the
\* steps above.
QueueLen == Len(items)

\* ------------------------------------------------------------- workerLoop
\* w.ProcessRequest(req) runs and returns.
ProcessRequest(c) ==
    /\ pc[c] = "process"
    /\ pc' = [pc EXCEPT ![c] = "done"]
    /\ UNCHANGED <<queueVars, cur, rpc, workersClosed, nextId, histVars,
                   doneCount, streamVars>>

\* Done that forgets pq.inflight.Done().
DoneGaugeOnly(c) ==
    /\ pc[c] = "done"
    /\ inFlightGauge' = inFlightGauge - 1
    /\ doneCount' = [doneCount EXCEPT ![cur[c].id] = @ + 1]
    /\ pc' = [pc EXCEPT ![c] = "pop"]
    /\ cur' = [cur EXCEPT ![c] = Nil]
    /\ UNCHANGED <<items, closed, inflight, waiters, queueDepth, rpc,
                   workersClosed, nextId, histVars, streamVars>>

\* Done that forgets metrics.InferenceInFlight.Dec().
DoneNoGaugeDec(c) ==
    /\ pc[c] = "done"
    /\ doneCount' = [doneCount EXCEPT ![cur[c].id] = @ + 1]
    /\ inflight' = inflight - 1
    /\ pc' = [pc EXCEPT ![c] = "pop"]
    /\ cur' = [cur EXCEPT ![c] = Nil]
    /\ UNCHANGED <<items, closed, waiters, queueDepth, inFlightGauge, rpc,
                   workersClosed, nextId, histVars, streamVars>>

\* r.queue.Done(): the gauge goes down, then WaitGroup.Done, which panics
\* on a negative counter; workerLoop then loops back to Pop.
Done(c) ==
    /\ pc[c] = "done"
    /\ inFlightGauge' = inFlightGauge - 1
    /\ doneCount' = [doneCount EXCEPT ![cur[c].id] = @ + 1]
    /\ IF inflight = 0
       THEN /\ pc' = [pc EXCEPT ![c] = "panic"]
            /\ UNCHANGED <<inflight, cur>>
       ELSE /\ inflight' = inflight - 1
            /\ pc' = [pc EXCEPT ![c] = "pop"]
            /\ cur' = [cur EXCEPT ![c] = Nil]
    /\ UNCHANGED <<items, closed, waiters, queueDepth, rpc, workersClosed,
                   nextId, histVars, streamVars>>

\* ------------------------------------------------- Client.ProcessRequest
\* ProcessRequest returns with the given value of `status`: the deferred
\* function counts the request under that status.
WorkerReturn(status) ==
    workerRequestsTotal' = [workerRequestsTotal EXCEPT ![status] = @ + 1]

\* ProcessRequest from its entry to the return of Generate: the queue wait
\* is observed under the record's priority label; then
\* c.rpcClient.Generate(ctx, rpcReq): the stream starts, or the call fails
\* and ProcessRequest goes to `req.ErrorCh <- err`.
Generate(c) ==
    /\ pc[c] = "process"
    /\ \/ pc' = [pc EXCEPT ![c] = "recv"]
       \/ pc' = [pc EXCEPT ![c] = "senderr"]
    /\ nrecv' = [nrecv EXCEPT ![c] = 0]
    /\ queueWait' = [queueWait EXCEPT
                        ![PriorityLabel(cur[c].Priority)] = @ + 1]
    /\ UNCHANGED <<queueVars, cur, rpc, workersClosed, nextId, histVars,
                   doneCount, endpointVars, respCh, respClosed, errCh,
                   wframe, fwd, failed, recvd, requestsTotal,
                   workerRequestsTotal>>

\* A read loop that closes ResponseCh on io.EOF and goes on reading.
StreamRecvNoReturn(c) ==
    /\ pc[c] = "recv"
    /\ \/ /\ nrecv[c] < MaxFrames
          /\ \E b \in BOOLEAN :
                wframe' = [wframe EXCEPT
                              ![c] = [n |-> nrecv[c] + 1, Finished |-> b]]
          /\ recvd' = [recvd EXCEPT ![cur[c].id] = Append(@, wframe'[c])]
          /\ nrecv' = [nrecv EXCEPT ![c] = @ + 1]
          /\ pc' = [pc EXCEPT ![c] = "send"]
          /\ UNCHANGED respClosed
       \/ /\ pc' = [pc EXCEPT ![c] = IF respClosed[cur[c].id]
                                     THEN "panic" ELSE "recv"]
          /\ respClosed' = [respClosed EXCEPT ![cur[c].id] = TRUE]
          /\ UNCHANGED <<wframe, recvd, nrecv>>
       \/ /\ pc' = [pc EXCEPT ![c] = "senderr"]
          /\ nrecv' = [nrecv EXCEPT ![c] = 0]
          /\ UNCHANGED <<wframe, respClosed, recvd>>
    /\ UNCHANGED <<queueVars, cur, rpc, workersClosed, nextId, histVars,
                   doneCount, endpointVars, respCh, errCh, fwd, failed,
                   metricVars>>

\* stream.Recv(): a frame (the backend delivers at most MaxFrames of them),
\* io.EOF, on which ResponseCh is closed and ProcessRequest returns, or an
\* error.  Closing a closed channel panics.
StreamRecv(c) ==
    /\ pc[c] = "recv"
    /\ \/ /\ nrecv[c] < MaxFrames
          /\ \E b \in BOOLEAN :
                wframe' = [wframe EXCEPT
                              ![c] = [n |-> nrecv[c] + 1, Finished |-> b]]
          /\ recvd' = [recvd EXCEPT ![cur[c].id] = Append(@, wframe'[c])]
          /\ nrecv' = [nrecv EXCEPT ![c] = @ + 1]
          /\ pc' = [pc EXCEPT ![c] = "send"]
          /\ UNCHANGED <<respClosed, workerRequestsTotal>>
       \/ /\ pc' = [pc EXCEPT ![c] = IF respClosed[cur[c].id]
                                     THEN "panic" ELSE "done"]
          /\ respClosed' = [respClosed EXCEPT ![cur[c].id] = TRUE]
          /\ nrecv' = [nrecv EXCEPT ![c] = 0]
          /\ WorkerReturn("success")
          /\ UNCHANGED <<wframe, recvd>>
       \/ /\ pc' = [pc EXCEPT ![c] = "senderr"]
          /\ nrecv' = [nrecv EXCEPT ![c] = 0]
          /\ UNCHANGED <<wframe, respClosed, recvd, workerRequestsTotal>>
    /\ UNCHANGED <<queueVars, cur, rpc, workersClosed, nextId, histVars,
                   doneCount, endpointVars, respCh, errCh, fwd, failed,
                   requestsTotal, queueWait>>

\* A send that gives up when the buffer is full: the frame is dropped and
\* the worker goes on reading.
SendFrameOrDrop(c) ==
    /\ pc[c] = "send"
    /\ IF respClosed[cur[c].id]
       THEN /\ pc' = [pc EXCEPT ![c] = "panic"]
            /\ WorkerReturn("success")
            /\ UNCHANGED <<respCh, fwd, wframe>>
       ELSE /\ respCh' = [respCh EXCEPT ![cur[c].id] =
                            IF Len(@) < ChanCap THEN Append(@, wframe[c])
                            ELSE @]
            /\ fwd' = [fwd EXCEPT ![cur[c].id] = @ + 1]
            /\ wframe' = [wframe EXCEPT ![c] = NoFrame]
            /\ pc' = [pc EXCEPT ![c] = "recv"]
            /\ UNCHANGED workerRequestsTotal
    /\ UNCHANGED <<queueVars, cur, rpc, workersClosed, nextId, histVars,
                   doneCount, endpointVars, respClosed, errCh, nrecv, failed,
                   recvd, requestsTotal, queueWait>>

\* req.ResponseCh <- resp: blocks while the buffer is full; a send on a
\* closed channel panics.
SendFrame(c) ==
    /\ pc[c] = "send"
    /\ Len(respCh[cur[c].id]) < ChanCap
    /\ IF respClosed[cur[c].id]
       THEN /\ pc' = [pc EXCEPT ![c] = "panic"]
            /\ WorkerReturn("success")
            /\ UNCHANGED <<respCh, fwd, wframe>>
       ELSE /\ respCh' = [respCh EXCEPT ![cur[c].id] = Append(@, wframe[c])]
            /\ fwd' = [fwd EXCEPT ![cur[c].id] = @ + 1]
            /\ wframe' = [wframe EXCEPT ![c] = NoFrame]
            /\ pc' = [pc EXCEPT ![c] = "recv"]
            /\ UNCHANGED workerRequestsTotal
    /\ UNCHANGED <<queueVars, cur, rpc, workersClosed, nextId, histVars,
                   doneCount, endpointVars, respClosed, errCh, nrecv, failed,
                   recvd, requestsTotal, queueWait>>

\* A ProcessRequest that closes ResponseCh on its error path too.
SendErrAndClose(c) ==
    /\ pc[c] = "senderr"
    /\ errCh[cur[c].id] < ErrCap
    /\ errCh' = [errCh EXCEPT ![cur[c].id] = @ + 1]
    /\ failed' = [failed EXCEPT ![cur[c].id] = TRUE]
    /\ respClosed' = [respClosed EXCEPT ![cur[c].id] = TRUE]
    /\ pc' = [pc EXCEPT ![c] = "done"]
    /\ WorkerReturn("error")
    /\ UNCHANGED <<queueVars, cur, rpc, workersClosed, nextId, histVars,
                   doneCount, endpointVars, respCh, nrecv, wframe, fwd,
                   recvd, requestsTotal, queueWait>>

\* A ProcessRequest that, having reported the error, starts over on the
\* same record.
SendErrRetry(c) ==
    /\ pc[c] = "senderr"
    /\ errCh[cur[c].id] < ErrCap
    /\ errCh' = [errCh EXCEPT ![cur[c].id] = @ + 1]
    /\ failed' = [failed EXCEPT ![cur[c].id] = TRUE]
    /\ pc' = [pc EXCEPT ![c] = "process"]
    /\ UNCHANGED <<queueVars, cur, rpc, workersClosed, nextId, histVars,
                   doneCount, endpointVars, respCh, respClosed, nrecv,
                   wframe, fwd, recvd, metricVars>>

\* An error path that forgets `status = "error"`.
SendErrStatusSuccess(c) ==
    /\ pc[c] = "senderr"
    /\ errCh[cur[c].id] < ErrCap
    /\ errCh' = [errCh EXCEPT ![cur[c].id] = @ + 1]
    /\ failed' = [failed EXCEPT ![cur[c].id] = TRUE]
    /\ pc' = [pc EXCEPT ![c] = "done"]
    /\ WorkerReturn("success")
    /\ UNCHANGED <<queueVars, cur, rpc, workersClosed, nextId, histVars,
                   doneCount, endpointVars, respCh, respClosed, nrecv,
                   wframe, fwd, recvd, requestsTotal, queueWait>>

\* `status = "error"` (set on either failure path), then
\* req.ErrorCh <- err: blocks while the buffer (of one) is full; then
\* ProcessRequest returns.
SendErr(c) ==
    /\ pc[c] = "senderr"
    /\ errCh[cur[c].id] < ErrCap
    /\ errCh' = [errCh EXCEPT ![cur[c].id] = @ + 1]
    /\ failed' = [failed EXCEPT ![cur[c].id] = TRUE]
    /\ pc' = [pc EXCEPT ![c] = "done"]
    /\ WorkerReturn("error")
    /\ UNCHANGED <<queueVars, cur, rpc, workersClosed, nextId, histVars,
                   doneCount, endpointVars, respCh, respClosed, nrecv,
                   wframe, fwd, recvd, requestsTotal, queueWait>>

\* ------------------------------------------- InferenceHandler.ServeHTTP
\* The bodies a submission can carry: not JSON, JSON with an empty prompt,
\* JSON with a prompt.
Bodies == {"badjson", "noprompt", "ok"}

\* What the endpoint writes on the response body.
DataEvent(f) == [kind |-> "data", n |-> f.n, Finished |-> f.Finished]
ErrorEvent == [kind |-> "error", n |-> 0, Finished |-> FALSE]

\* The call h returns with the pre-stream answer or terminal status res.
Return(h, res) ==
    /\ hpc' = [hpc EXCEPT ![h] = "returned"]
    /\ hres' = [hres EXCEPT ![h] = res]

\* A loop exit that lets the deferred function count with the status the
\* variable was initialised to.
LoopExitAlwaysSuccess(h, status) ==
    /\ Return(h, status)
    /\ requestsTotal' = [requestsTotal EXCEPT ![hlabel[h], "success"] = @ + 1]

\* The call h leaves its streaming loop with the given value of `status`:
\* the deferred function counts the request under the call's priorityLabel
\* and that status.
LoopExit(h, status) ==
    /\ Return(h, status)
    /\ requestsTotal' = [requestsTotal EXCEPT ![hlabel[h], status] = @ + 1]

\* ServeHTTP that tests the prompt only after the Push.
ServeHTTPLatePromptTest(h, body, p, t, canFlush) ==
    /\ hpc[h] = "serve"
    /\ hbody' = [hbody EXCEPT ![h] = body]
    /\ hflush' = [hflush EXCEPT ![h] = canFlush]
    /\ IF body = "badjson"
       THEN /\ Return(h, "400")
            /\ UNCHANGED <<queueVars, pc, cur, rpc, workersClosed, nextId,
                           histVars, hid>>
       ELSE /\ Push(p, t)
            /\ IF closed
               THEN /\ Return(h, "503")
                    /\ UNCHANGED hid
               ELSE /\ hid' = [hid EXCEPT ![h] = nextId]
                    /\ IF body = "noprompt"
                       THEN Return(h, "400")
                       ELSE IF canFlush
                       THEN /\ hpc' = [hpc EXCEPT ![h] = "stream"]
                            /\ UNCHANGED hres
                       ELSE Return(h, "500")
    /\ hlabel' = [hlabel EXCEPT ![h] = IF hpc'[h] = "stream"
                                       THEN PriorityLabel(p) ELSE @]
    /\ UNCHANGED <<doneCount, out, hgone, hreq, hallow, chanVars,
                   metricVars>>

\* ServeHTTP that does not look at what Push returned.
ServeHTTPIgnoringPush(h, body, p, t, canFlush) ==
    /\ hpc[h] = "serve"
    /\ hbody' = [hbody EXCEPT ![h] = body]
    /\ hflush' = [hflush EXCEPT ![h] = canFlush]
    /\ IF body # "ok"
       THEN /\ Return(h, "400")
            /\ UNCHANGED <<queueVars, pc, cur, rpc, workersClosed, nextId,
                           histVars, hid>>
       ELSE /\ Push(p, t)
            /\ hid' = [hid EXCEPT ![h] = nextId]
            /\ IF canFlush
               THEN /\ hpc' = [hpc EXCEPT ![h] = "stream"]
                    /\ UNCHANGED hres
               ELSE Return(h, "500")
    /\ hlabel' = [hlabel EXCEPT ![h] = IF hpc'[h] = "stream"
                                       THEN PriorityLabel(p) ELSE @]
    /\ UNCHANGED <<doneCount, out, hgone, hreq, hallow, chanVars,
                   metricVars>>

\* ServeHTTP from its entry to the streaming loop, for a call with the
\* given body, priority p, SubmitTime t and a ResponseWriter that is an
\* http.Flusher or not: decode and validate (400), build the record, Push
\* (503 when refused), set the headers, test for http.Flusher (500).
ServeHTTP(h, body, p, t, canFlush) ==
    /\ hpc[h] = "serve"
    /\ hbody' = [hbody EXCEPT ![h] = body]
    /\ hflush' = [hflush EXCEPT ![h] = canFlush]
    /\ IF body # "ok"
       THEN /\ Return(h, "400")
            /\ UNCHANGED <<queueVars, pc, cur, rpc, workersClosed, nextId,
                           histVars, hid>>
       ELSE /\ Push(p, t)
            /\ IF closed
               THEN /\ Return(h, "503")
                    /\ UNCHANGED hid
               ELSE /\ hid' = [hid EXCEPT ![h] = nextId]
                    /\ IF canFlush
                       THEN /\ hpc' = [hpc EXCEPT ![h] = "stream"]
                            /\ UNCHANGED hres
                       ELSE Return(h, "500")
    /\ hlabel' = [hlabel EXCEPT ![h] = IF hpc'[h] = "stream"
                                       THEN PriorityLabel(p) ELSE @]
    /\ UNCHANGED <<doneCount, out, hgone, hreq, hallow, chanVars,
                   metricVars>>

\* ------------------------------------- ServeHTTP: decoding and defaults
\* A field of the JSON body: absent, or present with a value.
Opt(S, zero) ==
    {[present |-> FALSE, v |-> zero]} \cup {[present |-> TRUE, v |-> x] : x \in S}

\* The JSON bodies that decode without error.  Temperatures are counted in
\* tenths.
JSONBodies ==
    [prompt : Opt({"", "hello"}, ""),
     max_tokens : Opt({-1, 0, 250}, 0),
     temperature : Opt({-5, 0, 15}, 0),
     model : Opt({"", "llama"}, ""),
     priority : Opt({-3, 0, LowPriority, HighPriority}, 0)]

DefaultMaxTokens == 100
\* 0.7, in tenths.
DefaultTemperature == 7
DefaultModel == "default-model"

\* json.NewDecoder(r.Body).Decode(&reqBody) on a well-formed body: a field
\* the body does not carry keeps the zero value of `var reqBody`.
DecodeBody(j) ==
    [Prompt |-> IF j.prompt.present THEN j.prompt.v ELSE "",
     MaxTokens |-> IF j.max_tokens.present THEN j.max_tokens.v ELSE 0,
     Temperature |-> IF j.temperature.present THEN j.temperature.v ELSE 0,
     Model |-> IF j.model.present THEN j.model.v ELSE "",
     Priority |-> IF j.priority.present THEN j.priority.v ELSE 0]

\* Defaults that replace negative values only.
ApplyDefaultsNegativeOnly(b) ==
    [Prompt |-> b.Prompt,
     MaxTokens |-> IF b.MaxTokens < 0 THEN DefaultMaxTokens ELSE b.MaxTokens,
     Temperature |-> IF b.Temperature < 0 THEN DefaultTemperature
                     ELSE b.Temperature,
     Model |-> IF b.Model = "" THEN DefaultModel ELSE b.Model,
     Priority |-> IF b.Priority < 0 THEN LowPriority ELSE b.Priority]

\* `// Apply Defaults`: the four tests on reqBody.
ApplyDefaults(b) ==
    [Prompt |-> b.Prompt,
     MaxTokens |-> IF b.MaxTokens <= 0 THEN DefaultMaxTokens ELSE b.MaxTokens,
     Temperature |-> IF b.Temperature <= 0 THEN DefaultTemperature
                     ELSE b.Temperature,
     Model |-> IF b.Model = "" THEN DefaultModel ELSE b.Model,
     Priority |-> IF b.Priority <= 0 THEN LowPriority ELSE b.Priority]

\* ServeHTTP of call h up to the test of the prompt: the body j is decoded
\* and the defaults are applied to reqBody.  Nothing shared is touched.
Decode(h, j) ==
    /\ hpc[h] = "serve"
    /\ ~hreq[h].followed
    /\ hreq' = [hreq EXCEPT ![h] = [followed |-> TRUE, json |-> j,
                                    body |-> ApplyDefaults(DecodeBody(j))]]
    /\ UNCHANGED <<queueVars, pc, cur, rpc, workersClosed, nextId, histVars,
                   doneCount, hallow,
                   hpc, hbody, hflush, hid, hgone, hres, hlabel,
                   out, chanVars, metricVars>>

\* ServeHTTP of call h from the test of the prompt on, with the reqBody it
\* decoded: the record gets reqBody's fields, its Priority among them.
ServeDecoded(h, t, canFlush) ==
    /\ hreq[h].followed
    /\ ServeHTTP(h, IF hreq[h].body.Prompt = "" THEN "noprompt" ELSE "ok",
                 hreq[h].body.Priority, t, canFlush)

\* A frame case that writes the frame and leaves it in the channel.
StreamFrameKeep(h) ==
    /\ hpc[h] = "stream"
    /\ respCh[hid[h]] # <<>>
    /\ LET f == Head(respCh[hid[h]]) IN
          /\ out' = [out EXCEPT ![h] = Append(@, DataEvent(f))]
          /\ IF f.Finished
             THEN LoopExit(h, "success")
             ELSE UNCHANGED <<hpc, hres, requestsTotal>>
    /\ UNCHANGED <<queueVars, pc, cur, rpc, workersClosed, nextId, histVars,
                   doneCount, hallow,
                   hbody, hflush, hid, hgone, hreq, hlabel, respCh,
                   respClosed, errCh, nrecv, wframe, fwd, failed, recvd,
                   workerRequestsTotal, queueWait>>

\* The frame case of the select without the test of resp.Finished.
StreamFrameNoFinishedTest(h) ==
    /\ hpc[h] = "stream"
    /\ respCh[hid[h]] # <<>>
    /\ LET f == Head(respCh[hid[h]]) IN
          /\ respCh' = [respCh EXCEPT ![hid[h]] = Tail(@)]
          /\ out' = [out EXCEPT ![h] = Append(@, DataEvent(f))]
          /\ UNCHANGED <<hpc, hres, requestsTotal>>
    /\ UNCHANGED <<queueVars, pc, cur, rpc, workersClosed, nextId, histVars,
                   doneCount, hallow,
                   hbody, hflush, hid, hgone, hreq, hlabel,
                   respClosed, errCh, nrecv, wframe, fwd, failed, recvd,
                   workerRequestsTotal, queueWait>>

\* The select picked `resp, ok := <-req.ResponseCh` with a frame in the
\* buffer: the frame is written and flushed; a Finished frame ends the call.
StreamFrame(h) ==
    /\ hpc[h] = "stream"
    /\ respCh[hid[h]] # <<>>
    /\ LET f == Head(respCh[hid[h]]) IN
          /\ respCh' = [respCh EXCEPT ![hid[h]] = Tail(@)]
          /\ out' = [out EXCEPT ![h] = Append(@, DataEvent(f))]
          /\ IF f.Finished
             THEN LoopExit(h, "success")
             ELSE UNCHANGED <<hpc, hres, requestsTotal>>
    /\ UNCHANGED <<queueVars, pc, cur, rpc, workersClosed, nextId, histVars,
                   doneCount, hallow,
                   hbody, hflush, hid, hgone, hreq, hlabel,
                   respClosed, errCh, nrecv, wframe, fwd, failed, recvd,
                   workerRequestsTotal, queueWait>>

\* The select picked ResponseCh, closed and drained (!ok): success.
StreamClosed(h) ==
    /\ hpc[h] = "stream"
    /\ respCh[hid[h]] = <<>>
    /\ respClosed[hid[h]]
    /\ LoopExit(h, "success")
    /\ UNCHANGED <<queueVars, pc, cur, rpc, workersClosed, nextId, histVars,
                   doneCount, hallow,
                   hbody, hflush, hid, hgone, hreq, hlabel, out,
                   chanVars, workerRequestsTotal, queueWait>>

\* The select picked `err := <-req.ErrorCh`: one error event is written.
StreamError(h) ==
    /\ hpc[h] = "stream"
    /\ errCh[hid[h]] > 0
    /\ errCh' = [errCh EXCEPT ![hid[h]] = @ - 1]
    /\ out' = [out EXCEPT ![h] = Append(@, ErrorEvent)]
    /\ LoopExit(h, "error")
    /\ UNCHANGED <<queueVars, pc, cur, rpc, workersClosed, nextId, histVars,
                   doneCount, hallow,
                   hbody, hflush, hid, hgone, hreq, hlabel, respCh,
                   respClosed, nrecv, wframe, fwd, failed, recvd,
                   workerRequestsTotal, queueWait>>

\* The client went away (if it had not yet) and the select picked
\* `<-r.Context().Done()`.
StreamCancelled(h) ==
    /\ hpc[h] = "stream"
    /\ hgone' = [hgone EXCEPT ![h] = TRUE]
    /\ LoopExit(h, "cancelled")
    /\ UNCHANGED <<queueVars, pc, cur, rpc, workersClosed, nextId, histVars,
                   doneCount, hallow,
                   hbody, hflush, hid, hreq, hlabel, out, chanVars,
                   workerRequestsTotal, queueWait>>

\* The client of call h closes its connection while the call is in its
\* streaming loop: net/http cancels r.Context(), and `<-r.Context().Done()`
\* becomes one more ready case of the select.
ContextDone(h) ==
    /\ hpc[h] = "stream"
    /\ ~hgone[h]
    /\ hgone' = [hgone EXCEPT ![h] = TRUE]
    /\ UNCHANGED <<queueVars, pc, cur, rpc, workersClosed, nextId, histVars,
                   doneCount, hallow,
                   hpc, hbody, hflush, hid, hreq, hres, hlabel,
                   out, chanVars, metricVars>>

\* ----------------------------------------------------------- Router.Close
CloseHist ==
    /\ closeItems' = {r.id : r \in Range(items)}
    /\ atClose' = InPop
    /\ closeBusy' = {cur[c].id : c \in {d \in Workers : cur[d] # Nil}}
    /\ UNCHANGED <<pushed, rejected, popCount, lastPop, soleWake>>

\* Close that also drops what is queued.
QueueCloseDiscard ==
    /\ rpc = "run"
    /\ closed' = TRUE
    /\ items' = <<>>
    /\ CondBroadcast
    /\ rpc' = "drain"
    /\ UNCHANGED <<inflight, queueDepth, inFlightGauge, cur,
                   workersClosed, nextId, doneCount, streamVars>>
    /\ CloseHist

\* r.queue.Close(): under pq.mu, set closed and Broadcast.
QueueClose ==
    /\ rpc = "run"
    /\ closed' = TRUE
    /\ CondBroadcast
    /\ rpc' = "drain"
    /\ UNCHANGED <<items, inflight, queueDepth, inFlightGauge, cur,
                   workersClosed, nextId, doneCount, streamVars>>
    /\ CloseHist

\* Wait that returns at once.
QueueWaitNoBlock ==
    /\ rpc = "drain"
    /\ rpc' = "closeWorkers"
    /\ UNCHANGED <<queueVars, pc, cur, workersClosed, nextId, histVars,
                   doneCount, streamVars>>

\* r.queue.Wait(): inflight.Wait() returns once the counter is zero.
QueueWait ==
    /\ rpc = "drain"
    /\ inflight = 0
    /\ rpc' = "closeWorkers"
    /\ UNCHANGED <<queueVars, pc, cur, workersClosed, nextId, histVars,
                   doneCount, streamVars>>

\* for _, w := range r.workers { w.Close() }
CloseWorkers ==
    /\ rpc = "closeWorkers"
    /\ workersClosed' = TRUE
    /\ rpc' = "done"
    /\ UNCHANGED <<queueVars, pc, cur, nextId, histVars, doneCount,
                   streamVars>>

\* ------------------------------------------------------------------- Next
Next ==
    \/ \E p \in Priorities, t \in Times : Submit(p, t)
    \/ \E c \in Workers : Pop(c)
    \/ \E c \in Workers : PopWake(c)
    \/ \E c \in Workers : ProcessRequest(c)
    \/ \E c \in Workers : Done(c)
    \/ QueueClose
    \/ QueueWait
    \/ CloseWorkers

Spec == Init /\ [][Next]_vars

\* Pushes, then pops, with no concurrent operation.
OrderNext ==
    \/ \E p \in Priorities, t \in Times : SubmitSeq(p, t)
    \/ \E c \in Workers : PopSeq(c)
    \/ \E c \in Workers : ProcessRequest(c)
    \/ \E c \in Workers : Done(c)

OrderSpec == Init /\ [][OrderNext]_vars

\* The wake-up protocol (the wait loop, Signal, Broadcast) reads
\* len(pq.items) and pq.closed and never the keys of the records: here
\* every submission carries the default priority and the same SubmitTime.
FairNext ==
    \/ SubmitDefault
    \/ \E c \in Workers : Pop(c)
    \/ \E c \in Workers : PopWake(c)
    \/ \E c \in Workers : ProcessRequest(c)
    \/ \E c \in Workers : Done(c)
    \/ QueueClose
    \/ QueueWait
    \/ CloseWorkers

\* The scheduler runs every runnable goroutine, and a goroutine waiting for
\* pq.mu gets it; nothing obliges a client to submit or the process to shut
\* down, so Push and QueueClose carry no fairness.
Fairness ==
    /\ \A c \in Workers : WF_vars(Pop(c))
    /\ \A c \in Workers : WF_vars(PopWake(c))
    /\ \A c \in Workers : WF_vars(ProcessRequest(c))
    /\ \A c \in Workers : WF_vars(Done(c))
    /\ WF_vars(QueueWait)
    /\ WF_vars(CloseWorkers)

FairSpec == Init /\ [][FairNext]_vars /\ Fairness

\* k consumers that call Pop once each (a consumer that has its record
\* stays at "process") and k pushes, in any interleaving; the queue is not
\* closed.
WakeNext ==
    \/ \E p \in Priorities, t \in Times : SubmitWake(p, t)
    \/ \E c \in Workers : Pop(c)
    \/ \E c \in Workers : PopWake(c)

\* Every consumer goroutine runs and the producer does push its k records.
WakeFairness ==
    /\ \A c \in Workers : WF_vars(Pop(c))
    /\ \A c \in Workers : WF_vars(PopWake(c))
    /\ WF_vars(\E p \in Priorities, t \in Times : SubmitWake(p, t))

WakeSpec == Init /\ [][WakeNext]_vars /\ WakeFairness

\* The endpoint, the queue, the workerLoops with ProcessRequest step by
\* step, and Router.Close.
StreamNext ==
    \/ \E h \in Conns, body \in Bodies, p \in Priorities, t \in Times,
          canFlush \in BOOLEAN : ServeHTTP(h, body, p, t, canFlush)
    \/ \E h \in Conns : StreamFrame(h)
    \/ \E h \in Conns : StreamClosed(h)
    \/ \E h \in Conns : StreamError(h)
    \/ \E h \in Conns : StreamCancelled(h)
    \/ \E c \in Workers : Pop(c)
    \/ \E c \in Workers : PopWake(c)
    \/ \E c \in Workers : Generate(c)
    \/ \E c \in Workers : StreamRecv(c)
    \/ \E c \in Workers : SendFrame(c)
    \/ \E c \in Workers : SendErr(c)
    \/ \E c \in Workers : Done(c)
    \/ QueueClose
    \/ QueueWait
    \/ CloseWorkers

StreamSpec == Init /\ [][StreamNext]_vars

\* Every runnable goroutine runs: the workerLoops, a ServeHTTP whose select
\* has a channel ready, Router.Close.  Nothing obliges a client to submit,
\* to stay or to go, nor the process to shut down.
StreamFairness ==
    /\ \A c \in Workers :
          /\ WF_vars(Pop(c))
          /\ WF_vars(PopWake(c))
          /\ WF_vars(Generate(c))
          /\ WF_vars(StreamRecv(c))
          /\ WF_vars(SendFrame(c))
          /\ WF_vars(SendErr(c))
          /\ WF_vars(Done(c))
    /\ \A h \in Conns :
          WF_vars(StreamFrame(h) \/ StreamClosed(h) \/ StreamError(h))
    /\ WF_vars(QueueWait)
    /\ WF_vars(CloseWorkers)

StreamFairSpec == Init /\ [][StreamNext]_vars /\ StreamFairness

\* StreamSpec with the client's disconnection as a step of its own, so that
\* the select can be followed between the cancellation and the return.
CancelNext ==
    \/ StreamNext
    \/ \E h \in Conns : ContextDone(h)

CancelSpec == Init /\ [][CancelNext]_vars

\* As StreamFairness; the select of a call whose context is cancelled has a
\* ready case, so the call takes some case of it.
CancelFairness ==
    /\ \A c \in Workers :
          /\ WF_vars(Pop(c))
          /\ WF_vars(PopWake(c))
          /\ WF_vars(Generate(c))
          /\ WF_vars(StreamRecv(c))
          /\ WF_vars(SendFrame(c))
          /\ WF_vars(SendErr(c))
          /\ WF_vars(Done(c))
    /\ \A h \in Conns :
          WF_vars(\/ StreamFrame(h)
                  \/ StreamClosed(h)
                  \/ StreamError(h)
                  \/ hgone[h] /\ StreamCancelled(h))
    /\ WF_vars(QueueWait)
    /\ WF_vars(CloseWorkers)

CancelFairSpec == Init /\ [][CancelNext]_vars /\ CancelFairness

\* The endpoint on bodies followed field by field, on an open queue.
DefaultsNext ==
    \/ \E h \in Conns, j \in JSONBodies : Decode(h, j)
    \/ \E h \in Conns, t \in Times, canFlush \in BOOLEAN :
          ServeDecoded(h, t, canFlush)

DefaultsSpec == Init /\ [][DefaultsNext]_vars

\* The record of another client: its ServeHTTP call pushed it and sits in
\* its own select loop, which the model does not follow; what the worker
\* sees of such a call is that it takes a frame off the record's ResponseCh,
\* or the error off its ErrorCh, or, when it has returned, nothing.  One
\* such client is enough to keep the one worker busy; its record has the
\* default priority and the earlier SubmitTime, and the followed call's
\* record any key, so that either record may outrank the other, or tie.
OtherIds == pushed \ {hid[h] : h \in Conns}

SubmitOther ==
    /\ OtherIds = {}
    /\ Push(LowPriority, 1)
    /\ UNCHANGED <<doneCount, streamVars>>

OtherRead(i) ==
    /\ i \in OtherIds
    /\ \/ /\ respCh[i] # <<>>
          /\ respCh' = [respCh EXCEPT ![i] = Tail(@)]
          /\ UNCHANGED errCh
       \/ /\ errCh[i] > 0
          /\ errCh' = [errCh EXCEPT ![i] = @ - 1]
          /\ UNCHANGED respCh
    /\ UNCHANGED <<queueVars, pc, cur, rpc, workersClosed, nextId, histVars,
                   doneCount, endpointVars, respClosed, nrecv, wframe, fwd,
                   failed, recvd, metricVars>>

\* A gateway started with one worker address: NewRouter made one client and
\* Router.Start one workerLoop; the other loops of the model never started.
SoleWorker == 1

SharedInit ==
    InitWith([c \in Workers |-> IF c = SoleWorker THEN "pop" ELSE "stopped"])

\* The followed call and the submission of another client, both served by
\* the one worker; the process is not shutting down.
SharedNext ==
    \/ SubmitOther
    \/ \E i \in Ids : OtherRead(i)
    \/ \E h \in Conns, p \in Priorities, t \in Times :
          ServeHTTP(h, "ok", p, t, TRUE)
    \/ \E h \in Conns : StreamFrame(h)
    \/ \E h \in Conns : StreamClosed(h)
    \/ \E h \in Conns : StreamError(h)
    \/ \E h \in Conns : StreamCancelled(h)
    \/ Pop(SoleWorker)
    \/ PopWake(SoleWorker)
    \/ Generate(SoleWorker)
    \/ StreamRecv(SoleWorker)
    \/ SendFrame(SoleWorker)
    \/ SendErr(SoleWorker)
    \/ Done(SoleWorker)

SharedSpec == SharedInit /\ [][SharedNext]_vars

\* Every runnable goroutine runs: the workerLoop and the followed call when
\* its select has a channel ready.  Nothing obliges a client to submit, to
\* stay or to go, nor another client's call to go on reading.
SharedFairness ==
    /\ WF_vars(Pop(SoleWorker))
    /\ WF_vars(PopWake(SoleWorker))
    /\ WF_vars(Generate(SoleWorker))
    /\ WF_vars(StreamRecv(SoleWorker))
    /\ WF_vars(SendFrame(SoleWorker))
    /\ WF_vars(SendErr(SoleWorker))
    /\ WF_vars(Done(SoleWorker))
    /\ \A h \in Conns :
          WF_vars(StreamFrame(h) \/ StreamClosed(h) \/ StreamError(h))

SharedFairSpec == SharedInit /\ [][SharedNext]_vars /\ SharedFairness

\* More submissions than there are workers, at any moment, with Router.Close
\* at any moment: every submission carries the default key (the counters
\* and the gauges do not read the keys), ProcessRequest is one step.
SubmitLoad ==
    /\ Push(LowPriority, 1)
    /\ UNCHANGED <<doneCount, streamVars>>

LoadNext ==
    \/ SubmitLoad
    \/ \E c \in Workers : Pop(c)
    \/ \E c \in Workers : PopWake(c)
    \/ \E c \in Workers : ProcessRequest(c)
    \/ \E c \in Workers : Done(c)
    \/ QueueClose
    \/ QueueWait
    \/ CloseWorkers

LoadSpec == Init /\ [][LoadNext]_vars

\* The bodies sent to follow the priority label: a prompt, and a priority
\* absent, non-positive, or on either side of the two thresholds of
\* PriorityLabel; the other fields are absent.
LabelPriorities == {-3, 0, LowPriority, 3, 4, 7, 8, HighPriority}

LabelBodies ==
    {j \in [prompt : {[present |-> TRUE, v |-> "hello"]},
            max_tokens : {[present |-> FALSE, v |-> 0]},
            temperature : {[present |-> FALSE, v |-> 0]},
            model : {[present |-> FALSE, v |-> ""]},
            priority : Opt(LabelPriorities, 0)] : TRUE}

\* One call, followed from its body to its return, and the one worker of a
\* gateway started with one worker address, ProcessRequest step by step;
\* the process is not shutting down.
LabelNext ==
    \/ \E h \in Conns, j \in LabelBodies : Decode(h, j)
    \/ \E h \in Conns, t \in Times, canFlush \in BOOLEAN :
          ServeDecoded(h, t, canFlush)
    \/ \E h \in Conns : StreamFrame(h)
    \/ \E h \in Conns : StreamClosed(h)
    \/ \E h \in Conns : StreamError(h)
    \/ \E h \in Conns : StreamCancelled(h)
    \/ Pop(SoleWorker)
    \/ PopWake(SoleWorker)
    \/ Generate(SoleWorker)
    \/ StreamRecv(SoleWorker)
    \/ SendFrame(SoleWorker)
    \/ SendErr(SoleWorker)
    \/ Done(SoleWorker)

LabelSpec == SharedInit /\ [][LabelNext]_vars

\* ------------------------------------------------ the middleware chain
\* WithRateLimit without its `return`: the rejected request is counted and
\* then handed on.
WithRateLimitNoReturn(h, allow) ==
    /\ hpc[h] = "serve"
    /\ hallow[h] = "none"
    /\ hallow' = [hallow EXCEPT ![h] = IF allow THEN "admitted" ELSE "rejected"]
    /\ UNCHANGED <<queueVars, pc, cur, rpc, workersClosed, nextId, histVars,
                   doneCount, hpc, hres, hbody, hflush, hid, hgone, hreq,
                   hlabel, out, chanVars, metricVars>>

\* The handler WithRateLimit wraps around the mux, up to its call of
\* next.ServeHTTP: limiter.Allow(ip) admits the request or not (allow);
\* a rejected request is answered 429 and the handler returns.
WithRateLimit(h, allow) ==
    /\ hpc[h] = "serve"
    /\ hallow[h] = "none"
    /\ hallow' = [hallow EXCEPT ![h] = IF allow THEN "admitted" ELSE "rejected"]
    /\ IF allow
       THEN UNCHANGED <<hpc, hres>>
       ELSE Return(h, "429")
    /\ UNCHANGED <<queueVars, pc, cur, rpc, workersClosed, nextId, histVars,
                   doneCount, hbody, hflush, hid, hgone, hreq, hlabel, out,
                   chanVars, metricVars>>

\* next.ServeHTTP(w, r): the mux hands the request to the inference
\* endpoint (mux.Handle("/v1/inference", inferenceHandler)).
MuxServeHTTP(h, body, p, t, canFlush) ==
    /\ hallow[h] # "none"
    /\ ServeHTTP(h, body, p, t, canFlush)

\* The server's finalHandler in front of the endpoint, the endpoint's
\* loop, and the one worker of a gateway started with one worker address;
\* the process is not shutting down.
ChainNext ==
    \/ \E h \in Conns, allow \in BOOLEAN : WithRateLimit(h, allow)
    \/ \E h \in Conns, body \in Bodies, p \in Priorities, t \in Times,
          canFlush \in BOOLEAN : MuxServeHTTP(h, body, p, t, canFlush)
    \/ \E h \in Conns : StreamFrame(h)
    \/ \E h \in Conns : StreamClosed(h)
    \/ \E h \in Conns : StreamError(h)
    \/ \E h \in Conns : StreamCancelled(h)
    \/ Pop(SoleWorker)
    \/ PopWake(SoleWorker)
    \/ Generate(SoleWorker)
    \/ StreamRecv(SoleWorker)
    \/ SendFrame(SoleWorker)
    \/ SendErr(SoleWorker)
    \/ Done(SoleWorker)

ChainSpec == SharedInit /\ [][ChainNext]_vars

\* Every runnable goroutine runs: the workerLoop, and the call when its
\* select has a channel ready.  Nothing obliges a client to send a request,
\* to stay or to go.
ChainFairness ==
    /\ WF_vars(Pop(SoleWorker))
    /\ WF_vars(PopWake(SoleWorker))
    /\ WF_vars(Generate(SoleWorker))
    /\ WF_vars(StreamRecv(SoleWorker))
    /\ WF_vars(SendFrame(SoleWorker))
    /\ WF_vars(SendErr(SoleWorker))
    /\ WF_vars(Done(SoleWorker))
    /\ \A h \in Conns :
          WF_vars(StreamFrame(h) \/ StreamClosed(h) \/ StreamError(h))

ChainFairSpec == SharedInit /\ [][ChainNext]_vars /\ ChainFairness

TypeOK ==
    /\ Range(items) \subseteq Requests
    /\ closed \in BOOLEAN
    /\ inflight \in 0..Cardinality(Ids)
    /\ waiters \subseteq Workers
    /\ pc \in [Workers -> {"pop", "waiting", "woken", "process", "recv",
                           "send", "senderr", "done", "stopped", "panic"}]
    /\ rpc \in {"run", "drain", "closeWorkers", "done"}
    /\ hpc \in [Conns -> {"serve", "stream", "returned"}]
    /\ hbody \in [Conns -> Bodies \cup {"none"}]
    /\ hid \in [Conns -> Ids \cup {0}]
    /\ hres \in [Conns -> {"none", "429", "400", "503", "500",
                            "success", "error", "cancelled"}]
    /\ \A i \in Ids :
          /\ Range(respCh[i]) \subseteq Frames
          /\ Len(respCh[i]) <= ChanCap
          /\ errCh[i] \in 0..ErrCap
    /\ nrecv \in [Workers -> 0..MaxFrames]

\* ======================================================= properties
\* x is ranked before r: a higher priority, or the same priority and an
\* earlier SubmitTime.
Outranks(x, r) ==
    \/ x.Priority > r.Priority
    \/ x.Priority = r.Priority /\ x.SubmitTime < r.SubmitTime

SameKey(x, r) == x.Priority = r.Priority /\ x.SubmitTime = r.SubmitTime

\* The step is a call of Push (it consumes the submission nextId).
PushStep == nextId' = nextId + 1
\* The step is a Push that returned true / false.
PushTrue == PushStep /\ nextId \in pushed'
PushFalse == PushStep /\ nextId \in rejected'
\* In this step the Pop of workerLoop c returned a record / returned nil.
PopReturned(c) == pc[c] \in {"pop", "woken"} /\ pc'[c] = "process"
PopReturnedNil(c) == pc[c] \in {"pop", "woken"} /\ pc'[c] = "stopped"
\* The step is the Close of the queue.
CloseStep == ~closed /\ closed'

HeapIds == {r.id : r \in Range(items)}

\* C1: Push returns false if and only if the queue is already closed; a Push
\* that returns false leaves the heap and the in-flight counter unchanged; a
\* Push that returns true adds exactly the pushed record to the heap and
\* increments the in-flight counter by one.
C1_PushContract ==
    [][PushStep =>
        /\ (PushFalse <=> closed)
        /\ (PushTrue <=> ~closed)
        /\ (PushFalse => items' = items /\ inflight' = inflight)
        /\ (PushTrue =>
              /\ inflight' = inflight + 1
              /\ Len(items') = Len(items) + 1
              /\ \E r \in Requests :
                    /\ r.id = nextId
                    /\ r \notin Range(items)
                    /\ Range(items') = Range(items) \cup {r})]_vars

\* C1 witness: a Push has returned true, another has returned false, and
\* the accepted record is in the heap.
C1_Witness == pushed # {} /\ rejected # {} /\ items # <<>>

\* C2 (OrderSpec: every Push precedes every Pop): each record Pop returns
\* is not ranked before the one returned just before it: the records come
\* out by priority descending and, within a priority, SubmitTime ascending,
\* whatever the order of the pushes.
C2_PopOrder ==
    [][\A c \in Workers :
          PopReturned(c) /\ lastPop # Nil =>
             \/ lastPop.Priority > cur'[c].Priority
             \/ /\ lastPop.Priority = cur'[c].Priority
                /\ lastPop.SubmitTime <= cur'[c].SubmitTime]_vars

\* C2 witness: three records were pushed and then popped, and the one
\* pushed first came out last, after two that were pushed after it.
C2_Witness ==
    /\ lastPop.id = 1
    /\ popCount[2] = 1
    /\ popCount[3] = 1

\* C3 (OrderSpec: every Push precedes every Pop): two records with the same
\* priority and the same SubmitTime are returned in the order in which they
\* were pushed (ids are given in push order).
C3_StablePopOrder ==
    [][\A c \in Workers :
          PopReturned(c) /\ lastPop # Nil /\ SameKey(cur'[c], lastPop)
          => lastPop.id < cur'[c].id]_vars

\* C4: under any interleaving, the record a Pop returns was in the heap and
\* no record in the heap at that moment is ranked before it.
C4_PopTakesHead ==
    [][\A c \in Workers :
          PopReturned(c) =>
             /\ cur'[c] \in Range(items)
             /\ \A x \in Range(items) : ~Outranks(x, cur'[c])]_vars

\* C4 witness: a worker holds a record that it took ahead of a lower-ranked
\* record which was pushed earlier and is still queued, while another
\* worker, woken for that earlier record, has not yet run.
C4_Witness ==
    \E c \in Workers :
       /\ pc[c] = "process"
       /\ \E x \in Range(items) : Outranks(cur[c], x) /\ x.id < cur[c].id
       /\ \E d \in Workers \ {c} : pc[d] = "woken"

\* C6: Pop returns nil only when the queue is closed and the heap is empty
\* at that moment; a record it returns is one that was in the heap, and is
\* taken out of it.
C6_PopResult ==
    [][\A c \in Workers :
          /\ PopReturnedNil(c) => closed /\ items = <<>>
          /\ PopReturned(c) =>
                /\ cur'[c] \in Range(items)
                /\ cur'[c] \notin Range(items')
                /\ Len(items') = Len(items) - 1]_vars

\* C6 witness: a workerLoop has stopped on nil after the queue was closed
\* with a record in it, that record having been returned by a Pop.
C6_Witness ==
    /\ closeItems # {}
    /\ \E c \in Workers : pc[c] = "stopped"
    /\ \A i \in closeItems : popCount[i] = 1

\* C5 as stated: once a Push has succeeded while worker c was the only one
\* inside Pop, parked, the Pop of c returns, and returns exactly the record
\* of that Push.
C5_SoleWaiterGetsPushed ==
    [][\A c \in Workers :
          soleWake[c] # 0 /\ pc[c] = "woken" /\ pc'[c] # "woken" =>
             pc'[c] = "process" /\ cur'[c].id = soleWake[c]]_vars

\* C5 amended: a Pop parked on an empty, open queue is released only by a
\* Push that succeeds or by Close; when a Push succeeds while c alone is
\* inside Pop, c is woken and eventually runs its test again, and it then
\* returns exactly the pushed record provided the heap still holds exactly
\* that record (no other Push or Pop got the mutex first).
C5_BlockingPop ==
    /\ [][\A c \in Workers :
             pc[c] = "waiting" /\ pc'[c] # "waiting" =>
                pc'[c] = "woken" /\ (PushTrue \/ CloseStep)]_vars
    /\ [][\A c \in Workers :
             PushTrue /\ InPop = {c} /\ pc[c] = "waiting" =>
                pc'[c] = "woken"]_vars
    /\ [][\A c \in Workers :
             /\ soleWake[c] # 0 /\ pc[c] = "woken" /\ pc'[c] # "woken"
             /\ HeapIds = {soleWake[c]}
             => pc'[c] = "process" /\ cur'[c].id = soleWake[c]]_vars
    /\ \A c \in Workers : (soleWake[c] # 0) ~> (soleWake[c] = 0)

\* C5 witness: worker c was alone inside Pop when a Push succeeded; it has
\* been woken and the heap holds exactly the pushed record.
C5_Witness ==
    \E c \in Workers :
       /\ soleWake[c] # 0
       /\ pc[c] = "woken"
       /\ HeapIds = {soleWake[c]}
       /\ ~closed

\* C7: Close only sets the closed flag and wakes the waiters: the heap and
\* the in-flight counter are unchanged; every record queued at Close stays
\* queued until a Pop returns it, these records are returned in priority
\* order, and all of them have been returned before any Pop returns nil.
C7_CloseKeepsQueue ==
    /\ [][CloseStep =>
             /\ items' = items
             /\ inflight' = inflight
             /\ waiters' = {}]_vars
    /\ [](closed =>
             \A i \in closeItems : popCount[i] = 1 \/ i \in HeapIds)
    /\ [][\A c \in Workers :
             PopReturned(c) /\ lastPop.id \in closeItems =>
                /\ cur'[c].id \in closeItems
                /\ ~Outranks(cur'[c], lastPop)]_vars
    /\ [][\A c \in Workers :
             PopReturnedNil(c) => \A i \in closeItems : popCount[i] = 1]_vars

\* C7 witness: two or more records were queued at Close, all of them have
\* since been returned by Pop, and a workerLoop has then got nil.
C7_Witness ==
    /\ closed
    /\ Cardinality(closeItems) >= 2
    /\ \A i \in closeItems : popCount[i] = 1
    /\ \E c \in Workers : pc[c] = "stopped"

\* C8 as stated: a Pop that was outstanding when Close ran (a worker of
\* atClose that has not left Pop since) returns nil, never a record;
\* and a Push invoked after Close returns false.
C8_OutstandingPopsGetNil ==
    /\ [][\A c \in Workers :
             closed /\ c \in atClose /\ pc[c] = "woken" /\ pc'[c] # "woken" =>
                pc'[c] = "stopped"]_vars
    /\ [][PushStep /\ closed => PushFalse]_vars

\* C8 amended: after Close, a Pop that was outstanding when Close ran never
\* parks again: it returns nil if the heap is empty when it gets the mutex
\* and a queued record otherwise; it returns nil whenever the heap was empty
\* when Close ran; and a Push invoked after Close returns false and
\* enqueues nothing.
C8_CloseReleasesPops ==
    /\ [][\A c \in Workers :
             closed /\ c \in atClose /\ pc[c] = "woken" /\ pc'[c] # "woken" =>
                /\ pc'[c] \in {"stopped", "process"}
                /\ (pc'[c] = "stopped" <=> items = <<>>)
                /\ (closeItems = {} => pc'[c] = "stopped")]_vars
    /\ [][PushStep /\ closed => PushFalse /\ items' = items]_vars

\* C8 witness: Close ran on an empty heap while a worker was inside Pop;
\* that worker has returned with nil, and a later Push has returned false.
C8_Witness ==
    /\ closed
    /\ closeItems = {}
    /\ rejected # {}
    /\ \E c \in atClose : pc[c] = "stopped"

\* C9: once the queue is closed no worker is parked in cond.Wait, and a
\* worker that is in Pop, or about to call it, while the heap is empty
\* eventually gets nil and leaves its loop.
C9_CloseReleasesAll ==
    /\ [](closed => waiters = {} /\ \A c \in Workers : pc[c] # "waiting")
    /\ \A c \in Workers :
          (closed /\ items = <<>> /\ pc[c] \in {"pop", "woken"})
             ~> (pc[c] = "stopped")

\* C9 witness: every worker was parked in Pop on an empty queue when Close
\* ran, and every workerLoop has stopped.
C9_Witness ==
    /\ closed
    /\ closeItems = {}
    /\ atClose = Workers
    /\ \A c \in Workers : pc[c] = "stopped"

\* C10: while the queue is open a Push wakes exactly one parked worker and
\* leaves the others parked; when two or more workers are parked on the
\* empty queue and a single Push succeeds, the woken Pop returns the pushed
\* record and the others stay parked.
C10_PushWakesOne ==
    /\ [][PushTrue /\ waiters # {} =>
             \E c \in waiters :
                /\ waiters' = waiters \ {c}
                /\ pc'[c] = "woken"
                /\ \A d \in Workers \ {c} : pc'[d] = pc[d]]_vars
    /\ [][\A c \in Workers :
             /\ pc[c] = "woken" /\ pc'[c] # "woken"
             /\ ~closed
             /\ Cardinality(pushed) = 1
             /\ \A i \in Ids : popCount[i] = 0
             /\ \A d \in Workers \ {c} : pc[d] = "waiting"
             => /\ pc'[c] = "process"
                /\ cur'[c].id \in pushed
                /\ \A d \in Workers \ {c} : pc'[d] = "waiting"]_vars

\* C10 witness: a single Push has succeeded on the open queue while all the
\* workers (two or more) were parked; one of them holds the pushed record
\* and all the others are still parked.
C10_Witness ==
    /\ ~closed
    /\ Cardinality(Workers) >= 2
    /\ Cardinality(pushed) = 1
    /\ \E c \in Workers :
          /\ pc[c] = "process"
          /\ cur[c].id \in pushed
          /\ \A d \in Workers \ {c} : pc[d] = "waiting"

\* C11 (WakeSpec: k consumers call Pop once each, k records are pushed, in
\* any interleaving): every Pop eventually returns; once all have returned
\* each holds a distinct record, the records returned are exactly the
\* records pushed and the heap is empty; and whenever the heap is not empty
\* some consumer is running towards its loop test (about to lock, or woken),
\* so none stays parked in front of a record.
C11_NoLostWakeup ==
    /\ <>[](\A c \in Workers : pc[c] = "process")
    /\ []((\A c \in Workers : pc[c] = "process") =>
             /\ \A c, d \in Workers : c # d => cur[c].id # cur[d].id
             /\ {cur[c].id : c \in Workers} = pushed
             /\ Cardinality(pushed) = NumWorkers
             /\ items = <<>>)
    /\ [](items # <<>> => \E c \in Workers : pc[c] \in {"pop", "woken"})
    /\ [](\A i \in Ids : popCount[i] <= 1)

\* C11 witness: the k records have been pushed, every consumer's Pop has
\* returned, each with a different one of them, and the heap is empty.
C11_Witness ==
    /\ \A c \in Workers : pc[c] = "process"
    /\ Cardinality({cur[c].id : c \in Workers}) = NumWorkers
    /\ \A i \in pushed : popCount[i] = 1
    /\ nextId = NumWorkers + 1
    /\ items = <<>>

\* In this step workerLoop c called Done.
DoneCalled(c) == pc[c] = "done" /\ pc'[c] # "done"

\* C12 (conservation): a record whose Push succeeded is at every moment
\* either still in the heap, or held by the one consumer whose Pop returned
\* it, or completed by exactly one Done; no Pop returns it a second time;
\* its Done is called by the consumer that popped it, once ProcessRequest
\* has returned; nothing that was not pushed is popped; a consumer whose
\* Pop returned nil calls no Done; and when Wait returns every pushed
\* record has had its Pop and its Done.
C12_Conservation ==
    /\ [](\A i \in Ids :
             /\ popCount[i] <= 1
             /\ doneCount[i] <= popCount[i]
             /\ (popCount[i] = 1 => i \in pushed)
             /\ (i \in pushed =>
                    (i \in HeapIds) # (popCount[i] = 1))
             /\ (popCount[i] = 1 =>
                    Cardinality({c \in Workers : cur[c].id = i})
                       = 1 - doneCount[i]))
    /\ [][\A i \in Ids :
             doneCount'[i] # doneCount[i] =>
                /\ doneCount'[i] = doneCount[i] + 1
                /\ \E c \in Workers :
                      /\ DoneCalled(c)
                      /\ cur[c].id = i
                      /\ popCount[i] = 1
                      /\ \A d \in Workers \ {c} : cur[d].id # i]_vars
    /\ [][\A c \in Workers :
             /\ (DoneCalled(c) => doneCount'[cur[c].id] = 1 /\ pc'[c] = "pop")
             /\ (pc[c] = "stopped" => pc'[c] = "stopped")
             /\ (PopReturnedNil(c) => doneCount' = doneCount)]_vars
    /\ [](rpc \in {"closeWorkers", "done"} =>
             \A i \in pushed : popCount[i] = 1 /\ doneCount[i] = 1)

\* C12 witness: two records were pushed, each has been popped once and
\* completed by one Done, a worker has since got nil from Pop, and Wait has
\* returned.
C12_Witness ==
    /\ Cardinality(pushed) >= 2
    /\ \A i \in pushed : popCount[i] = 1 /\ doneCount[i] = 1
    /\ inflight = 0
    /\ \E c \in Workers : pc[c] = "stopped"
    /\ rpc = "closeWorkers"

\* The records whose Push succeeded and for which Done has not been called.
NotDone == {i \in pushed : doneCount[i] = 0}

\* C13 as stated: in every reachable state the number of records in the
\* heap plus the in-flight counter (the one Push increments and Done
\* decrements) equals the number of pushed records not yet completed.
C13_DepthPlusInflight ==
    Len(items) + inflight = Cardinality(NotDone)

\* C13 amended: in every reachable state the in-flight counter alone
\* equals the number of pushed records not yet completed (it counts the
\* queued records too), and the number of records in the heap plus the
\* number of records popped and not yet completed (the inference_in_flight
\* gauge) equals that same number.
C13_InflightCoversQueued ==
    /\ inflight = Cardinality(NotDone)
    /\ Len(items) + inFlightGauge = Cardinality(NotDone)
    /\ inFlightGauge = Cardinality({i \in Ids : popCount[i] > doneCount[i]})

\* C13 witness: one record is queued while another is being processed,
\* neither completed.
C13_Witness ==
    /\ Len(items) = 1
    /\ inFlightGauge = 1
    /\ inflight = 2
    /\ \E c \in Workers : pc[c] = "process"

\* C14: Router.Close runs its three steps in order: it closes the queue;
\* Wait returns only once Done has been called for every record that was
\* queued or held by a worker when Close ran (indeed for every record ever
\* pushed); only after that are the worker connections closed, so none is
\* closed while a record is queued or being processed.
C14_CloseOrder ==
    /\ [][rpc' # rpc =>
             \/ rpc = "run" /\ rpc' = "drain" /\ closed'
             \/ /\ rpc = "drain" /\ rpc' = "closeWorkers"
                /\ inflight = 0
                /\ \A i \in closeItems \cup closeBusy : doneCount[i] = 1
             \/ rpc = "closeWorkers" /\ rpc' = "done" /\ workersClosed']_vars
    /\ [](rpc # "run" => closed)
    /\ [](rpc \in {"closeWorkers", "done"} =>
             /\ items = <<>>
             /\ \A c \in Workers : cur[c] = Nil
             /\ \A i \in pushed : doneCount[i] = 1)
    /\ [](workersClosed => rpc = "done")
    /\ [][workersClosed' # workersClosed =>
             ~workersClosed /\ rpc = "closeWorkers"]_vars

\* C14 witness: Close ran while one record was queued and another was held
\* by a worker; both have been completed and the worker connections are
\* now closed.
C14_Witness ==
    /\ closeItems # {}
    /\ closeBusy # {}
    /\ workersClosed

\* C15 (StreamFairSpec: every backend stream ends or fails within MaxFrames
\* frames, every goroutine that can run does): once Router.Close has closed
\* the queue, the in-flight counter eventually reaches zero and Close
\* returns, whatever the clients do.
C15_DrainTerminates ==
    closed ~> (inflight = 0 /\ rpc = "done")

\* In this step the call h ran from its entry to its answer or to its
\* streaming loop.
Served(h) == hpc[h] = "serve" /\ hpc'[h] # "serve"

\* C16: when Push returns false the endpoint answers 503 and returns
\* without entering the streaming loop (and it answers 503 in no other
\* case); a call in its streaming loop waits on the channels of a record
\* that was enqueued; and a refused record is never in the heap, never held
\* by a worker, never popped, and nothing is ever sent on its channels.
C16_RefusedPush ==
    /\ [][\A h \in Conns :
             /\ (Served(h) /\ PushFalse =>
                    /\ hres'[h] = "503"
                    /\ hpc'[h] = "returned"
                    /\ hid'[h] = 0
                    /\ out'[h] = <<>>)
             /\ (Served(h) /\ hres'[h] = "503" => closed /\ PushFalse)]_vars
    /\ [](\A h \in Conns :
             hpc[h] = "stream" => hid[h] \in pushed /\ hid[h] \notin rejected)
    /\ [](\A i \in rejected :
             /\ i \notin HeapIds
             /\ popCount[i] = 0
             /\ \A c \in Workers : cur[c].id # i
             /\ respCh[i] = <<>> /\ ~respClosed[i] /\ errCh[i] = 0
             /\ fwd[i] = 0 /\ ~failed[i])

\* C16 witness: a call made after the queue was closed has had its Push
\* refused and has returned 503.
C16_Witness ==
    \E h \in Conns :
       /\ closed
       /\ hres[h] = "503"
       /\ hpc[h] = "returned"
       /\ rejected # {}

\* C17: when the ResponseWriter of a call is not an http.Flusher and the
\* endpoint answers 500, no record has been pushed for that call: the step
\* leaves the heap and the in-flight counter as they were, the call has no
\* record, and so no worker ever processes one for it.
C17_NoFlusherNoPush ==
    /\ [][\A h \in Conns :
             Served(h) /\ hres'[h] = "500" =>
                /\ ~hflush'[h]
                /\ items' = items
                /\ inflight' = inflight
                /\ ~PushTrue]_vars
    /\ [](\A h \in Conns : hres[h] = "500" => hid[h] = 0)

\* C18: a submission whose body is not valid JSON, or whose prompt is
\* empty, is answered 400 (and only such a submission is) and no record is
\* created for it: the heap, the in-flight counter and the rest of the
\* queue are left as they were and no Push is made.
C18_MalformedSubmission ==
    /\ [][\A h \in Conns :
             Served(h) =>
                /\ (hbody'[h] \in {"badjson", "noprompt"} <=> hres'[h] = "400")
                /\ (hbody'[h] \in {"badjson", "noprompt"} =>
                       /\ hpc'[h] = "returned"
                       /\ items' = items
                       /\ inflight' = inflight
                       /\ UNCHANGED <<queueVars, pc, nextId, pushed, rejected>>
                       /\ hid'[h] = 0
                       /\ out'[h] = <<>>)]_vars
    /\ [](\A h \in Conns : hres[h] = "400" => hid[h] = 0 /\ out[h] = <<>>)

\* C18 witness: a submission with an empty prompt has been answered 400
\* while a worker was parked on the empty queue, which is left as it was.
C18_Witness ==
    \E h \in Conns :
       /\ hbody[h] = "noprompt"
       /\ hres[h] = "400"
       /\ hpc[h] = "returned"
       /\ items = <<>> /\ inflight = 0 /\ nextId = 1
       /\ waiters # {}

\* The first k events of o are the data events of the frames 1..k of the
\* stream, in order.
DataPrefix(o, k) ==
    /\ Len(o) >= k
    /\ \A j \in 1..k : o[j].kind = "data" /\ o[j].n = j

\* C19: when the backend delivers n frames and then fails, a call that is
\* still connected and writes the error event has written before it the n
\* data frames the worker forwarded, in order, and writes the error event
\* once, last: whatever the interleaving of the worker and the endpoint,
\* no forwarded frame is dropped.
C19_FramesThenError ==
    \A h \in Conns :
       hres[h] = "error" =>
          /\ Len(out[h]) = fwd[hid[h]] + 1
          /\ DataPrefix(out[h], fwd[hid[h]])
          /\ out[h][Len(out[h])] = ErrorEvent
          /\ respCh[hid[h]] = <<>>

\* The event ends the response: an error event, or a Finished frame.
Terminal(e) == e.kind = "error" \/ e.Finished

\* C20: on each response an error event or a Finished frame is the last
\* thing written: there is at most one error event, nothing follows it, no
\* data frame follows a Finished frame; the endpoint writes one event at a
\* time, from its streaming loop only, returns as it writes a terminal one
\* and writes nothing once it has returned.
C20_TerminalEventLast ==
    /\ [](\A h \in Conns :
             /\ \A k \in 1..Len(out[h]) :
                   Terminal(out[h][k]) => k = Len(out[h])
             /\ Cardinality({k \in 1..Len(out[h]) :
                                out[h][k].kind = "error"}) <= 1
             /\ (hpc[h] = "stream" =>
                    \A k \in 1..Len(out[h]) : ~Terminal(out[h][k])))
    /\ [][\A h \in Conns :
             out'[h] # out[h] =>
                /\ hpc[h] = "stream"
                /\ Len(out'[h]) = Len(out[h]) + 1
                /\ SubSeq(out'[h], 1, Len(out[h])) = out[h]
                /\ (Terminal(out'[h][Len(out'[h])]) =>
                       hpc'[h] = "returned")]_vars

\* C20 witness: the endpoint wrote a Finished frame and returned; the
\* backend went on and a later frame, forwarded by the worker, sits unread
\* in ResponseCh.
C20_Witness ==
    \E h \in Conns :
       /\ hpc[h] = "returned"
       /\ hres[h] = "success"
       /\ Len(out[h]) >= 1
       /\ out[h][Len(out[h])].Finished
       /\ respCh[hid[h]] # <<>>

\* C21 (SharedFairSpec: one worker, every backend stream ends or fails
\* within MaxFrames frames, every goroutine that can run does): a call that
\* pushed its record and entered its streaming loop eventually reaches a
\* terminal event and returns, whatever the other client does.
C21_CallTerminates ==
    \A h \in Conns : (hpc[h] = "stream") ~> (hpc[h] = "returned")

\* The stream of record i is in progress: ProcessRequest has neither closed
\* its ResponseCh nor sent an error.
InProgress(i) == ~respClosed[i] /\ ~failed[i]

\* C22 (CancelFairSpec): once the request context of a call is cancelled
\* while its stream is still in progress, the call eventually returns,
\* without waiting for the worker to finish, and the terminal status it
\* records is cancelled.
C22_CancelledStatus ==
    /\ [][\A h \in Conns :
             /\ hgone[h] /\ hpc[h] = "stream" /\ InProgress(hid[h])
             /\ hpc'[h] = "returned"
             => hres'[h] = "cancelled"]_vars
    /\ \A h \in Conns :
          (hgone[h] /\ hpc[h] = "stream") ~> (hpc[h] = "returned")

\* C23 (StreamFairSpec: every backend stream ends or fails within MaxFrames
\* frames): after the client of a call has disconnected and the call has
\* returned with status cancelled, the ProcessRequest of its record still
\* runs to its end: it eventually returns, workerLoop calls Done for the
\* record and goes back to Pop.
C23_WorkerCompletes ==
    \A h \in Conns :
       (hres[h] = "cancelled") ~>
          (/\ hid[h] \in Ids
           /\ doneCount[hid[h]] = 1
           /\ \A c \in Workers : cur[c].id # hid[h])

\* C24 (SharedFairSpec: one worker, two records): when ProcessRequest fails,
\* at the start of the stream or in the middle of it, it puts the error on
\* the record's ErrorCh and returns; workerLoop then calls Done, which
\* completes the record, and goes back to Pop, which it runs: if a record is
\* queued the worker takes it and goes on to process it (a record Pop
\* returns has never failed nor been completed), otherwise it parks; the
\* failed record is never in the heap again, never returned by a second Pop
\* and never held again, and no workerLoop dies.
C24_FailureIsLocal ==
    /\ [][\A c \in Workers :
             /\ (pc[c] = "senderr" /\ pc'[c] # "senderr" =>
                    /\ pc'[c] = "done"
                    /\ failed'[cur[c].id]
                    /\ cur'[c] = cur[c])
             /\ (DoneCalled(c) /\ failed[cur[c].id] =>
                    /\ pc'[c] = "pop"
                    /\ cur'[c] = Nil
                    /\ doneCount'[cur[c].id] = 1
                    /\ inflight' = inflight - 1)]_vars
    /\ [](\A i \in Ids :
             failed[i] =>
                /\ i \notin HeapIds
                /\ popCount[i] = 1
                /\ (doneCount[i] = 1 => \A c \in Workers : cur[c].id # i))
    /\ [](\A c \in Workers : pc[c] # "panic")
    /\ [][\A c \in Workers :
             /\ (PopReturned(c) =>
                    ~failed[cur'[c].id] /\ doneCount[cur'[c].id] = 0)
             /\ (pc[c] = "pop" /\ pc'[c] # "pop" /\ items # <<>> =>
                    PopReturned(c) /\ cur'[c] \in Range(items))]_vars
    /\ (pc[SoleWorker] = "senderr") ~>
          (pc[SoleWorker] \in {"waiting", "process"})

\* C24 witness: the ProcessRequest of one record failed in the middle of its
\* stream, Done was called for it, and the worker is now processing the
\* record that was queued behind it.
C24_Witness ==
    \E i \in Ids :
       /\ failed[i]
       /\ fwd[i] >= 1
       /\ doneCount[i] = 1
       /\ pc[SoleWorker] \in {"process", "recv", "send"}
       /\ cur[SoleWorker].id \in pushed \ {i}

\* a and b can be two records of one producer task: the one built first
\* (the lower id) carries a SubmitTime that is not later.
ProgramOrder(a, b) ==
    /\ (a.id < b.id => a.SubmitTime <= b.SubmitTime)
    /\ (b.id < a.id => b.SubmitTime <= a.SubmitTime)

\* C25 as stated: of two records pushed one after the other by one
\* producer, the one with the higher priority (with equal priorities, the
\* earlier SubmitTime) is dequeued first, whichever was pushed first: no Pop
\* returns a record ranked before the record the previous Pop returned.
C25_HigherFirst ==
    [][\A c \in Workers :
          PopReturned(c) /\ lastPop # Nil /\ ProgramOrder(lastPop, cur'[c])
          => ~Outranks(cur'[c], lastPop)]_vars

\* C25 amended: of two records that are both in the heap when a Pop takes
\* one of them, the one taken has the higher priority, or the same priority
\* and a SubmitTime that is not later, whichever of the two was pushed
\* first; a record is dequeued before a higher-ranked one only when that
\* one was pushed after it (and was not yet pushed when the Pop ran, every
\* earlier record not yet dequeued being in the heap at each Pop).
C25_QueuedHigherFirst ==
    /\ [][\A c \in Workers :
             PopReturned(c) =>
                \A x \in Range(items) \ {cur'[c]} :
                   \/ cur'[c].Priority > x.Priority
                   \/ /\ cur'[c].Priority = x.Priority
                      /\ cur'[c].SubmitTime <= x.SubmitTime]_vars
    /\ [][\A c \in Workers :
             PopReturned(c) /\ lastPop # Nil /\ Outranks(cur'[c], lastPop)
             => cur'[c].id > lastPop.id]_vars
    /\ [][\A c \in Workers :
             PopReturned(c) =>
                \A i \in pushed :
                   i < cur'[c].id /\ popCount[i] = 0 => i \in HeapIds]_vars

\* C25 witness: a worker holds a high-priority record that it took ahead of
\* a low-priority record pushed before it (with an earlier SubmitTime) and
\* still queued.
C25_Witness ==
    \E c \in Workers :
       /\ pc[c] = "process"
       /\ \E x \in Range(items) :
             /\ x.id < cur[c].id
             /\ x.SubmitTime < cur[c].SubmitTime
             /\ x.Priority < cur[c].Priority

\* The record with id i, where it is: in the heap or held by a worker.
RecordOf(i) ==
    CHOOSE r \in Range(items) \cup {cur[c] : c \in Workers} : r.id = i

\* C26 (DefaultsSpec): every record the endpoint pushes has a non-empty
\* prompt, max_tokens >= 1, temperature > 0, a non-empty model and
\* priority >= 1; an absent or non-positive max_tokens, temperature or
\* priority has been replaced by 100, 0.7 (7 tenths) or 1, an absent model
\* by default-model, and a positive supplied value (a supplied model name,
\* the prompt) is passed through unchanged.
C26_Defaults ==
    \A h \in Conns :
       hreq[h].followed =>
          LET j == hreq[h].json
              b == hreq[h].body
          IN  /\ hid[h] # 0 =>
                    /\ b.Prompt # ""
                    /\ b.MaxTokens >= 1
                    /\ b.Temperature > 0
                    /\ b.Model # ""
                    /\ b.Priority >= 1
                    /\ RecordOf(hid[h]).Priority = b.Priority
              /\ b.MaxTokens =
                    IF j.max_tokens.present /\ j.max_tokens.v > 0
                    THEN j.max_tokens.v ELSE 100
              /\ b.Temperature =
                    IF j.temperature.present /\ j.temperature.v > 0
                    THEN j.temperature.v ELSE 7
              /\ b.Priority =
                    IF j.priority.present /\ j.priority.v > 0
                    THEN j.priority.v ELSE 1
              /\ (~j.model.present => b.Model = "default-model")
              /\ (j.model.present /\ j.model.v # "" => b.Model = j.model.v)
              /\ (j.prompt.present => b.Prompt = j.prompt.v)

\* C26 witness: a body with a prompt, max_tokens 0, a negative temperature,
\* no model and priority 10 has been made into a pushed record with
\* max_tokens 100 and priority 10.
C26_Witness ==
    \E h \in Conns :
       /\ hid[h] # 0
       /\ hreq[h].followed
       /\ hreq[h].json.max_tokens = [present |-> TRUE, v |-> 0]
       /\ hreq[h].json.temperature = [present |-> TRUE, v |-> -5]
       /\ ~hreq[h].json.model.present
       /\ hreq[h].json.priority = [present |-> TRUE, v |-> HighPriority]
       /\ hreq[h].body.MaxTokens = 100
       /\ RecordOf(hid[h]).Priority = HighPriority

\* In this step the ProcessRequest of workerLoop c returned.
Returned(c) ==
    pc[c] \in {"process", "recv", "send", "senderr"} /\ pc'[c] = "done"

\* C27: each ProcessRequest call performs exactly one terminal action on
\* its record, as it returns: either it closes ResponseCh and sends no
\* error, or it sends one error on ErrorCh and leaves ResponseCh open; no
\* record ever has both, a returned call never has neither, ResponseCh is
\* closed and ErrorCh written only by such a step, and at most one error is
\* ever sent for a record.
C27_OneTerminalAction ==
    /\ [](\A i \in Ids :
             /\ ~(respClosed[i] /\ failed[i])
             /\ errCh[i] <= 1
             /\ (errCh[i] = 1 => failed[i])
             /\ (doneCount[i] = 1 => respClosed[i] # failed[i]))
    /\ [][\A c \in Workers :
             Returned(c) =>
                LET i == cur[c].id IN
                /\ ~respClosed[i] /\ ~failed[i]
                /\ respClosed'[i] # failed'[i]
                /\ (failed'[i] <=> pc[c] = "senderr")
                /\ (failed'[i] => errCh'[i] = errCh[i] + 1)
                /\ (respClosed'[i] => errCh'[i] = errCh[i])]_vars
    /\ [][\A i \in Ids :
             respClosed'[i] # respClosed[i] \/ failed'[i] # failed[i]
                \/ errCh'[i] > errCh[i]
             => \E c \in Workers : Returned(c) /\ cur[c].id = i]_vars

\* C27 witness: one ProcessRequest has ended its record's stream with an
\* error after forwarding a frame, ResponseCh being left open, and the
\* record is completed.
C27_Witness ==
    \E i \in Ids :
       /\ failed[i]
       /\ ~respClosed[i]
       /\ fwd[i] >= 1
       /\ doneCount[i] = 1

\* C28: ProcessRequest never panics the workerLoop: no worker is ever dead
\* of a panic; a send on ResponseCh is made on an open channel and
\* ResponseCh is closed only while open (no second close); and a failure
\* of ProcessRequest (of Generate or of Recv) becomes one value on the
\* record's ErrorCh and nothing else: the worker goes to the send on
\* ErrorCh, makes it and returns, and the endpoint writes an error event
\* only for an error it took from ErrorCh.
C28_NoPanic ==
    /\ [](\A c \in Workers : pc[c] # "panic")
    /\ [][\A c \in Workers :
             /\ (pc[c] = "send" /\ pc'[c] # "send" =>
                    /\ ~respClosed[cur[c].id]
                    /\ pc'[c] = "recv"
                    /\ respCh'[cur[c].id] = Append(respCh[cur[c].id], wframe[c]))
             /\ (pc[c] = "recv" /\ respClosed'[cur[c].id] =>
                    ~respClosed[cur[c].id] /\ pc'[c] = "done")
             /\ (pc'[c] = "senderr" /\ pc[c] # "senderr" =>
                    pc[c] \in {"process", "recv"} /\ UNCHANGED <<respCh, errCh>>)
             /\ (pc[c] = "senderr" /\ pc'[c] # "senderr" =>
                    /\ pc'[c] = "done"
                    /\ errCh'[cur[c].id] = errCh[cur[c].id] + 1
                    /\ UNCHANGED <<respCh, respClosed>>)]_vars
    /\ [](\A h \in Conns :
             hres[h] = "error" => failed[hid[h]] /\ errCh[hid[h]] = 0)

\* C28 witness: a backend stream failed after a frame; the error went
\* through ErrorCh to the endpoint, which wrote the error event; the worker
\* completed the record and is back in Pop, parked.
C28_Witness ==
    \E h \in Conns :
       /\ hres[h] = "error"
       /\ fwd[hid[h]] >= 1
       /\ doneCount[hid[h]] = 1
       /\ \E c \in Workers : pc[c] = "waiting"
       /\ \A c \in Workers : pc[c] # "panic"

\* The data events among what call h wrote, in order.
IsData(e) == e.kind = "data"
OutData(h) == SelectSeq(out[h], IsData)

\* The frames of s as the data events the endpoint makes of them.
AsEvents(s) == [k \in 1..Len(s) |-> DataEvent(s[k])]

\* C29: for every call, the data frames it has written are a prefix, in the
\* same order and without duplication, of the frames stream.Recv returned
\* to the worker for its record; as the k-th frame received carries the
\* cumulative count k, the counts written to the client are 1, 2, ... in
\* order, hence non-decreasing.
C29_WrittenPrefix ==
    \A h \in Conns :
       hid[h] # 0 =>
          LET d == OutData(h)
              r == recvd[hid[h]]
          IN  /\ Len(d) <= Len(r)
              /\ d = SubSeq(AsEvents(r), 1, Len(d))
              /\ \A k \in 1..Len(d) : d[k].n = k
              /\ \A k, l \in 1..Len(d) : k < l => d[k].n <= d[l].n

\* C29 witness: the worker received two frames; the call wrote the first
\* and returned (its client left) before writing the second.
C29_Witness ==
    \E h \in Conns :
       /\ hid[h] # 0
       /\ Len(recvd[hid[h]]) >= 2
       /\ Len(OutData(h)) = 1
       /\ hres[h] = "cancelled"

\* The frame the worker holding record i has received and not yet sent.
Pending(i) ==
    LET W == {c \in Workers : cur[c].id = i /\ pc[c] = "send"}
    IN  IF W = {} THEN <<>> ELSE <<wframe[CHOOSE c \in W : TRUE]>>

\* C30 (backpressure; ChanCap stands for the capacity, 100 in the code): a
\* record's ResponseCh never holds more frames than its capacity; a worker
\* whose send finds it full stays at that send, holding its frame, and
\* calls stream.Recv no more until the endpoint has taken a frame; and no
\* frame is dropped or overwritten: the frames received from the backend
\* are, in order, those the endpoint has written, those in the channel and
\* the one the worker is holding.
C30_Backpressure ==
    /\ [](\A i \in Ids : Len(respCh[i]) <= ChanCap)
    /\ [][\A c \in Workers :
             pc[c] = "send" /\ Len(respCh[cur[c].id]) = ChanCap =>
                /\ pc'[c] = "send"
                /\ cur'[c] = cur[c]
                /\ wframe'[c] = wframe[c]
                /\ nrecv'[c] = nrecv[c]
                /\ recvd'[cur[c].id] = recvd[cur[c].id]]_vars
    /\ [][\A c \in Workers :
             pc[c] = "send" /\ pc'[c] # "send" =>
                /\ Len(respCh[cur[c].id]) < ChanCap
                /\ respCh'[cur[c].id] = Append(respCh[cur[c].id], wframe[c])]_vars
    /\ [](\A h \in Conns :
             hid[h] # 0 =>
                AsEvents(recvd[hid[h]]) =
                   OutData(h) \o AsEvents(respCh[hid[h]])
                      \o AsEvents(Pending(hid[h])))

\* C30 witness: ResponseCh is full, its call is still in its loop and has
\* not yet taken the frame, and the worker is stopped at the send of the
\* next frame.
C30_Witness ==
    \E h \in Conns, c \in Workers :
       /\ hpc[h] = "stream"
       /\ cur[c].id = hid[h]
       /\ pc[c] = "send"
       /\ Len(respCh[hid[h]]) = ChanCap
       /\ Len(recvd[hid[h]]) = ChanCap + 1

\* The workers whose workerLoop holds record i, and the records that have
\* been popped and not yet completed.
Holding(i) == {c \in Workers : cur[c].id = i}
Processing == {i \in Ids : popCount[i] > doneCount[i]}

\* C31 (LoadSpec: more records than workers): each worker has one
\* workerLoop, which processes serially: a loop holds a record exactly
\* between the return of its Pop and its Done, so it calls Pop only while
\* it holds none and holds at most one; a record is held by at most one
\* worker (Pop hands a worker a record no other worker holds); and the
\* records being processed are exactly the records held, one per busy
\* worker, hence never more than there are workers.
C31_SerialWorkers ==
    /\ [](\A c \in Workers :
             cur[c] # Nil <=> pc[c] \in {"process", "done"})
    /\ [](\A i \in Ids : Cardinality(Holding(i)) <= 1)
    /\ [](/\ Processing = {cur[c].id : c \in {d \in Workers : cur[d] # Nil}}
          /\ Cardinality(Processing) <= NumWorkers)
    /\ [][\A c \in Workers :
             /\ (PopReturned(c) =>
                    /\ cur[c] = Nil
                    /\ cur'[c] # Nil
                    /\ \A d \in Workers \ {c} : cur[d].id # cur'[c].id)
             /\ (cur'[c] # cur[c] => PopReturned(c) \/ DoneCalled(c))
             /\ (pc[c] = "process" /\ pc'[c] # "process" =>
                    pc'[c] = "done" /\ cur'[c] = cur[c])]_vars

\* C31 witness: every worker is processing a record of its own while one
\* more record waits in the heap.
C31_Witness ==
    /\ \A c \in Workers : pc[c] = "process"
    /\ Cardinality({cur[c].id : c \in Workers}) = NumWorkers
    /\ Len(items) >= 1

\* inference_requests_total summed over the priority label, per status and
\* in all.
RequestsWith(st) ==
    requestsTotal["high", st] + requestsTotal["medium", st]
       + requestsTotal["low", st]
RequestsCounted ==
    RequestsWith("success") + RequestsWith("error") + RequestsWith("cancelled")

\* In this step call h left its streaming loop.
LoopExited(h) == hpc[h] = "stream" /\ hpc'[h] = "returned"

\* The status that goes with the way call h leaves its loop in this step:
\* its context was cancelled, or it took the error off ErrorCh, or else it
\* took a frame or found ResponseCh closed.
ExitStatus(h) ==
    IF hgone'[h] # hgone[h] THEN "cancelled"
    ELSE IF errCh'[hid[h]] < errCh[hid[h]] THEN "error"
    ELSE "success"

\* C32: a call that enters the streaming loop increments
\* inference_requests_total exactly once, when it leaves the loop, under
\* one status: success when it left on a Finished frame or on the closed
\* ResponseCh, error when it left on ErrorCh, cancelled when it left on the
\* cancellation of the client's context; the counter moves at no other
\* step, so a call still in its loop, or answered before the loop (400,
\* 503, 500), has counted nothing.
C32_RequestCounted ==
    /\ [](\A h \in Conns :
             /\ (hpc[h] = "stream" => hres[h] = "none" /\ hlabel[h] \in Labels)
             /\ (hres[h] \in Statuses <=>
                    hpc[h] = "returned" /\ hlabel[h] \in Labels)
             /\ (hres[h] \in Statuses =>
                    requestsTotal[hlabel[h], hres[h]] = 1))
    /\ [](RequestsCounted = Cardinality({h \in Conns : hres[h] \in Statuses}))
    /\ [][\A h \in Conns :
             LoopExited(h) =>
                /\ hres'[h] = ExitStatus(h)
                /\ requestsTotal' =
                      [requestsTotal EXCEPT ![hlabel[h], ExitStatus(h)] = @ + 1]
                /\ (hres'[h] = "success" =>
                       \/ /\ respCh[hid[h]] # <<>>
                          /\ Head(respCh[hid[h]]).Finished
                          /\ out'[h] = Append(out[h],
                                              DataEvent(Head(respCh[hid[h]])))
                       \/ /\ respClosed[hid[h]]
                          /\ respCh[hid[h]] = <<>>
                          /\ out'[h] = out[h])
                /\ (hres'[h] = "error" =>
                       out'[h] = Append(out[h], ErrorEvent))
                /\ (hres'[h] = "cancelled" => out'[h] = out[h])]_vars
    /\ [][requestsTotal' # requestsTotal =>
             \E h \in Conns : LoopExited(h)]_vars

\* C32 witness: a call of high priority wrote a frame, then left its loop
\* on ErrorCh; the counter stands at one, under high and error.
C32_Witness ==
    \E h \in Conns :
       /\ hres[h] = "error"
       /\ Len(out[h]) = 2
       /\ requestsTotal["high", "error"] = 1
       /\ RequestsCounted = 1

\* The workerLoops that Router.Start started and that have not returned.
Running == {c \in Workers : pc[c] # "stopped"}

\* C33 (SharedSpec: one worker, the records of two clients, ProcessRequest
\* step by step): the inference_in_flight gauge always equals the number
\* of records that Pop has returned and for which Done has not been called;
\* it is never negative and never above the number of workers; it moves
\* only by +1 when a Pop returns a record and by -1 at a Done, which comes
\* after the ProcessRequest of that record has returned, having closed
\* ResponseCh (success) or sent an error (failure); so whenever no worker
\* holds a record the gauge is back at zero.
C33_InFlightGauge ==
    /\ [](/\ inFlightGauge = Cardinality(Processing)
          /\ inFlightGauge >= 0
          /\ inFlightGauge <= Cardinality(Running)
          /\ inFlightGauge = Cardinality({c \in Workers : cur[c] # Nil}))
    /\ []((\A c \in Workers : cur[c] = Nil) => inFlightGauge = 0)
    /\ [][\A c \in Workers :
             /\ (PopReturned(c) => inFlightGauge' = inFlightGauge + 1)
             /\ (DoneCalled(c) =>
                    /\ inFlightGauge' = inFlightGauge - 1
                    /\ respClosed[cur[c].id] # failed[cur[c].id])]_vars
    /\ [][inFlightGauge' # inFlightGauge =>
             \E c \in Workers : PopReturned(c) \/ DoneCalled(c)]_vars

\* C33 witness: the process call of one record failed and that of the
\* other succeeded, both records are completed, and the gauge is back at
\* zero.
C33_Witness ==
    /\ \E i, j \in Ids :
          /\ failed[i] /\ doneCount[i] = 1
          /\ respClosed[j] /\ doneCount[j] = 1
    /\ \A c \in Workers : cur[c] = Nil
    /\ inFlightGauge = 0

\* C34 (SharedSpec): each ProcessRequest call increments
\* inference_worker_requests_total exactly once, in the step in which it
\* returns, with status error if and only if it sent an error on the
\* record's ErrorCh (Generate failed or a Recv failed) and status success
\* if and only if it closed ResponseCh; the counter moves at no other step,
\* so the error count is the number of records that were sent an error,
\* the success count the number of records whose ResponseCh was closed.
C34_WorkerCounted ==
    /\ [](/\ workerRequestsTotal["error"] =
                Cardinality({i \in Ids : failed[i]})
          /\ workerRequestsTotal["success"] =
                Cardinality({i \in Ids : respClosed[i]})
          /\ workerRequestsTotal["cancelled"] = 0)
    /\ [][\A c \in Workers :
             Returned(c) =>
                LET i == cur[c].id
                    st == IF errCh'[i] > errCh[i] THEN "error" ELSE "success"
                IN  /\ workerRequestsTotal' =
                          [workerRequestsTotal EXCEPT ![st] = @ + 1]
                    /\ (st = "error" <=> failed'[i] /\ ~failed[i])
                    /\ (st = "success" <=> respClosed'[i] /\ ~respClosed[i])
                    /\ (st = "error" <=> pc[c] = "senderr")]_vars
    /\ [][workerRequestsTotal' # workerRequestsTotal =>
             \E c \in Workers : Returned(c)]_vars

\* C34 witness: two process calls have returned, one after the backend
\* failed mid-stream (a frame had been forwarded), one at the end of its
\* stream; the counter stands at one error and one success.
C34_Witness ==
    /\ workerRequestsTotal["error"] = 1
    /\ workerRequestsTotal["success"] = 1
    /\ \E i \in Ids : failed[i] /\ fwd[i] >= 1
    /\ \A c \in Workers : cur[c] = Nil

\* The number of Pop calls that have returned a record.
RECURSIVE SumPops(_)
SumPops(S) ==
    IF S = {} THEN 0
    ELSE LET i == CHOOSE x \in S : TRUE
         IN  popCount[i] + SumPops(S \ {i})
PopsReturned == SumPops(Ids)

\* C35 (LoadSpec; every state of the model is one in which pq.mu is free,
\* Push and the body of Pop being single steps): Len is the number of Push
\* calls that returned true minus the number of Pop calls that returned a
\* record, whatever the interleaving of the calls made so far, with Pop
\* calls parked or Close under way or not; it is never negative; and the
\* inference_queue_depth gauge equals the length of the heap.
C35_DepthObserved ==
    /\ QueueLen = Cardinality(pushed) - PopsReturned
    /\ QueueLen >= 0
    /\ queueDepth = Len(items)
    /\ queueDepth = QueueLen

\* C35 witness: three records were pushed, two Pops have returned a record
\* and one of those is completed; one record is queued and the gauge
\* reads 1.
C35_Witness ==
    /\ Cardinality(pushed) = 3
    /\ PopsReturned = 2
    /\ Cardinality({i \in Ids : doneCount[i] = 1}) = 1
    /\ QueueLen = 1
    /\ queueDepth = 1

\* The label the claim gives a priority.
LabelOf(p) ==
    CASE p >= 8 -> "high"
      [] 4 <= p /\ p < 8 -> "medium"
      [] OTHER -> "low"

\* The priorities the label is evaluated on: below, at and above both
\* thresholds, zero and negative values included.
PriorityRange == -3..12

\* C36 (LabelSpec): PriorityLabel gives every priority one of the three
\* labels: high from 8 up, medium from 4 to 7, low below 4, zero and
\* negative values included; the priorityLabel of a call is the label of
\* its record's priority; and for a given record the label under which the
\* endpoint counts the request and the label under which the worker
\* observes the queue wait are that same label.
C36_PriorityLabel ==
    /\ \A p \in PriorityRange :
          /\ PriorityLabel(p) = LabelOf(p)
          /\ PriorityLabel(p) \in Labels
          /\ (p <= 0 => PriorityLabel(p) = "low")
    /\ \A h \in Conns :
          hreq[h].followed =>
             LET l == LabelOf(hreq[h].body.Priority) IN
             /\ hlabel[h] \in {"none", l}
             /\ \A m \in Labels, st \in Statuses :
                   requestsTotal[m, st] > 0 => m = l
             /\ \A m \in Labels : queueWait[m] > 0 => m = l
    /\ \A m, n \in Labels, st \in Statuses :
          requestsTotal[m, st] > 0 /\ queueWait[n] > 0 => m = n

\* C36 witness: a call was sent priority 7; the worker observed its queue
\* wait and the endpoint counted the request, both under medium.
C36_Witness ==
    \E h \in Conns :
       /\ hreq[h].followed
       /\ hreq[h].json.priority = [present |-> TRUE, v |-> 7]
       /\ queueWait["medium"] = 1
       /\ requestsTotal["medium", "success"] = 1

\* C37 (ChainSpec): admission precedes dispatch.  A call the rate limiter
\* rejected has been answered 429 and has returned without reaching the
\* endpoint: it was given no body to decode, pushed no record and wrote no
\* event; 429 is the answer of rejected calls only; the endpoint runs only
\* for admitted calls; and every record pushed (queued, held by a worker or
\* completed) is the record of a call the rate limiter admitted.
C37_AdmissionFirst ==
    /\ \A h \in Conns :
          /\ (hallow[h] = "rejected" =>
                 /\ hpc[h] = "returned"
                 /\ hres[h] = "429"
                 /\ hbody[h] = "none"
                 /\ hid[h] = 0
                 /\ out[h] = <<>>)
          /\ (hres[h] = "429" => hallow[h] = "rejected")
          /\ (hbody[h] # "none" => hallow[h] = "admitted")
    /\ \A i \in pushed \cup HeapIds :
          \E h \in Conns : hid[h] = i /\ hallow[h] = "admitted"
    /\ ((\E h \in Conns : hallow[h] = "rejected") =>
           /\ pushed = {}
           /\ items = <<>>
           /\ nextId = 1
           /\ \A c \in Workers : cur[c] = Nil)

\* C37 witness: the rate limiter rejected the call; it has been answered
\* 429 while the worker sits parked in Pop with nothing to do.
C37_Witness ==
    \E h \in Conns :
       /\ hallow[h] = "rejected"
       /\ hres[h] = "429"
       /\ pc[SoleWorker] = "waiting"
       /\ pushed = {}

\* C38 (LoadSpec): once Close has set the closed flag the flag stays set,
\* and from then on no step makes the heap longer or the in-flight counter
\* larger; Router.Close waits for the drain only after Close has returned,
\* so every Push that runs while Wait is pending, or after it has returned,
\* is refused and leaves the heap and the counter as they were: the counter
\* only goes down during the wait, and Wait returns with it at zero for
\* good.
C38_NoGrowthAfterClose ==
    /\ [][closed =>
             /\ closed'
             /\ Len(items') <= Len(items)
             /\ inflight' <= inflight]_vars
    /\ [](rpc # "run" => closed)
    /\ [][rpc # "run" /\ PushStep =>
             /\ PushFalse
             /\ items' = items
             /\ inflight' = inflight]_vars
    /\ [](rpc \in {"closeWorkers", "done"} => inflight = 0 /\ items = <<>>)

\* C38 witness: Close ran with one record queued and one being processed;
\* a Push made during the wait was refused, and both counts stand where
\* Close found them.
C38_Witness ==
    /\ rpc = "drain"
    /\ rejected # {}
    /\ Len(items) = 1
    /\ inflight = 2
    /\ closeItems # {}
    /\ closeBusy # {}

\* The number of Done calls made so far.
RECURSIVE SumOf(_, _)
SumOf(f, S) ==
    IF S = {} THEN 0
    ELSE LET i == CHOOSE x \in S : TRUE
         IN  f[i] + SumOf(f, S \ {i})
DoneCalls == SumOf(doneCount, Ids)

\* C39 (LoadSpec): under the workerLoops the number of Done calls is at
\* most the number of Pop calls that returned a record, which is at most
\* the number of Push calls that returned true; the in-flight counter is
\* the number of successful pushes minus the number of Done calls, so it
\* is never negative, and no workerLoop dies of the panic WaitGroup.Done
\* raises on a negative counter.
C39_CounterNotNegative ==
    /\ DoneCalls <= PopsReturned
    /\ PopsReturned <= Cardinality(pushed)
    /\ inflight = Cardinality(pushed) - DoneCalls
    /\ inflight >= 0
    /\ \A c \in Workers : pc[c] # "panic"

\* C39 witness: three records were pushed, popped and completed, the
\* three counts are equal and the in-flight counter is back at zero, the
\* queue still open.
C39_Witness ==
    /\ Cardinality(pushed) = 3
    /\ PopsReturned = 3
    /\ DoneCalls = 3
    /\ inflight = 0
    /\ ~closed

\* C40 (ChainFairSpec: every goroutine that can run does): a worker never
\* blocks while delivering an error.  A record's ErrorCh, of capacity one,
\* is written at most once, by the one ProcessRequest call of the record,
\* which returns in that same step; so whenever a worker stands at
\* `req.ErrorCh <- err` the channel is empty and the send can be made,
\* whether the endpoint is still in its loop, has returned on a Finished
\* frame, or has returned because its client left; and a worker that
\* stands at that send does get to the return of ProcessRequest.
C40_ErrorSendNeverBlocks ==
    /\ [](\A c \in Workers :
             pc[c] = "senderr" =>
                /\ errCh[cur[c].id] = 0
                /\ ~failed[cur[c].id]
                /\ errCh[cur[c].id] < ErrCap
                /\ ENABLED SendErr(c))
    /\ [](\A i \in Ids : errCh[i] <= ErrCap /\ (errCh[i] > 0 => failed[i]))
    /\ [][\A c \in Workers :
             pc[c] = "senderr" /\ pc'[c] # "senderr" =>
                /\ pc'[c] = "done"
                /\ errCh'[cur[c].id] = 1]_vars
    /\ [][\A i \in Ids : failed[i] => errCh'[i] <= errCh[i]]_vars
    /\ \A c \in Workers : (pc[c] = "senderr") ~> (pc[c] = "done")

\* C40 witness: the endpoint returned on a Finished frame; the backend
\* stream then failed, the worker put the error on ErrorCh, which nobody
\* reads, and went on to complete the record.
C40_Witness ==
    \E h \in Conns :
       /\ hres[h] = "success"
       /\ hid[h] # 0
       /\ failed[hid[h]]
       /\ errCh[hid[h]] = 1
       /\ doneCount[hid[h]] = 1

====
